---- MODULE Spec2Model ----
(***************************************************************************)
(* The x86-64 backend of dynarmic (EmitX64): block emission, the block     *)
(* registry, patch sites and their rewriting, terminals, the condition     *)
(* evaluator, and the execution of the emitted code on the guest state.    *)
(*                                                                         *)
(* The code buffer is modelled byte by byte.  A cell is a triple           *)
(* <<op, a, b>>: the first byte of an instruction carries its mnemonic and *)
(* operands, every further byte of it is the cell Cont.  Addresses are     *)
(* indices into mem; 0 is nullptr.  32-bit values that are only used       *)
(* bitwise (CPSR, masks) are sets of bit positions.                        *)
(***************************************************************************)
EXTENDS Integers, Sequences, FiniteSets, TLC

VARIABLES
    mem,                \* BlockOfCode: the bytes of the code buffer
    cursor,             \* BlockOfCode: code->getCurr()
    block_descriptors,  \* EmitX64::block_descriptors, keyed by UniqueHash
    patch_information,  \* EmitX64::patch_information, keyed by UniqueHash
    aborted,            \* a fatal assertion has fired
    pc,                 \* where the host executes: Dispatch, or a block entry
    jit_state,          \* JitState: the guest state emitted code works on
    emitLog,            \* history: one record per completed Emit call
    last,               \* history: the last operation called on the backend
    unpatchedSites,     \* history: sites rewritten by Unpatch, target not re-emitted
    invalidated,        \* history: entries of blocks invalidated by Unpatch
    clearedSites,       \* history: sites that were recorded when ClearCache ran
    nOps,               \* history: number of calls made on the backend
    ran,                \* history: the block executed last and the guest state before it
    condIn,             \* input of the condition-evaluator runs: <<cond, cpsr>>
    condOut,            \* their outcome: "none", "pass", "fail" or "assert"
    opIn,               \* input of the runs of one emit rule: the IR instruction and its operands
    opOut,              \* their outcome: the host and guest state the emitted code leaves
    excl,               \* the exclusive monitor and the log of the monitor operations
    ir_block,           \* IR::Block: the block the front-end is building
    debug_asserts       \* the build: DEBUG_ASSERT is compiled in

vars == <<mem, cursor, block_descriptors, patch_information, aborted, pc,
          jit_state, emitLog, last, unpatchedSites, invalidated, clearedSites,
          nOps, ran, condIn, condOut, opIn, opOut, excl, ir_block,
          debug_asserts>>

\* The variables of the runs of single emit rules, and their idle values.
opVars == <<opIn, opOut, excl, ir_block, debug_asserts>>
NoOpIn == [op |-> "none"]
NoOpOut == [done |-> FALSE]
Excl0 == [exclusive_state |-> {}, exclusive_address |-> {}, log |-> <<>>]
NoBlock == [location |-> <<0, 0>>, constructed |-> FALSE]
OpIdle ==
    /\ opIn = NoOpIn /\ opOut = NoOpOut /\ excl = Excl0 /\ ir_block = NoBlock
    /\ debug_asserts = FALSE

(***************************************************************************)
(* Bounds of the model.                                                    *)
(***************************************************************************)
\* calls on the backend in one behaviour
MaxOps == 4
\* cycle budget the dispatcher hands to a run
MaxCycles == 2

(***************************************************************************)
(* Program constants.                                                      *)
(***************************************************************************)
NullPtr == 0
\* code->align(): blocks start on a 16-byte boundary
AlignSize == 16
\* JitState::RSBSize, a power of two
RSBSize == 4
\* CPSR bit positions
TBit == 5
EBit == 9
NBit == 31
ZBit == 30
CBit == 29
VBit == 28

\* The run_code prelude of the buffer: the two return-to-dispatcher stubs.
ReturnFromRunCodeAddress == 1
ReturnNoMxcsrSwitchAddress == 2
Prelude == << <<"RFRC", 0, 0>>, <<"RFRC_NOSWITCH", 0, 0>> >>

\* Values of pc that are not code addresses.
Dispatch == 0
Trap == -1

Max(a, b) == IF a >= b THEN a ELSE b

(***************************************************************************)
(* ARM condition codes (Arm::Cond).                                        *)
(***************************************************************************)
EQ == 0
NE == 1
CS == 2
CC == 3
MI == 4
PL == 5
VS == 6
VC == 7
HI == 8
LS == 9
GE == 10
LT == 11
GT == 12
LE == 13
AL == 14
NV == 15

(***************************************************************************)
(* Location descriptors and their hash.  The hash is the pair              *)
(* <<upper word, PC>>; the upper word is computed as PopRSBHint            *)
(* reconstructs it: ((cpsr & (T|E)) >> 2) | FPSCR_mode.                    *)
(***************************************************************************)
RECURSIVE BitsToInt(_)
BitsToInt(s) ==
    IF s = {} THEN 0
    ELSE LET b == CHOOSE x \in s : TRUE
         IN (2 ^ b) + BitsToInt(s \ {b})

ShrBits(s, n) == {b - n : b \in {x \in s : x >= n}}

\* The bits of the number n, the lowest at position base
RECURSIVE Bits(_, _)
Bits(n, base) ==
    IF n = 0 THEN {}
    ELSE (IF n % 2 = 1 THEN {base} ELSE {}) \cup Bits(n \div 2, base + 1)

\* and ebx, T|E; shr ebx, 2; or ebx, FPSCR_mode
HashUpper(cpsr, fpscr_mode) ==
    BitsToInt(ShrBits(cpsr \cap {TBit, EBit}, 2) \cup Bits(fpscr_mode, 0))

LocCpsr(loc) == (IF loc.T THEN {TBit} ELSE {}) \cup (IF loc.E THEN {EBit} ELSE {})

UniqueHash(loc) == <<HashUpper(LocCpsr(loc), loc.fpscr), loc.pc>>

LocA == [pc |-> 100, T |-> FALSE, E |-> FALSE, fpscr |-> 0]
LocB == [pc |-> 200, T |-> TRUE, E |-> FALSE, fpscr |-> 0]
LocC == [pc |-> 300, T |-> FALSE, E |-> FALSE, fpscr |-> 0]
Locs == <<LocA, LocB, LocC>>
Hashes == {UniqueHash(Locs[i]) : i \in 1..Len(Locs)}

(***************************************************************************)
(* The code buffer.                                                        *)
(***************************************************************************)
Cont == <<"..", 0, 0>>
Nop == <<"NOP", 0, 0>>

\* Encoded length in bytes of each instruction the backend emits.
InsSize(op) ==
    CASE op = "NOP" -> 1
      [] op = "INT3" -> 1
      [] op = "RFRC" -> 1
      [] op = "RFRC_NOSWITCH" -> 1
      [] op = "JG" -> 6
      [] op = "JNE_ABS" -> 6
      [] op = "JMP" -> 5
      [] op = "JMP_RAX" -> 2
      [] op = "MOV_PC" -> 8
      [] op = "MOV_REG" -> 8
      [] op = "MOV_RCX" -> 10
      [] op = "SUB_CYCLES" -> 8
      [] op = "CMP_CYCLES" -> 8
      [] op = "CMP_HALT" -> 8
      [] op = "OR_CPSR" -> 7
      [] op = "AND_CPSR" -> 7
      [] op = "MOV_R_CPSR" -> 3
      [] op = "TEST" -> 5
      [] op = "AND" -> 5
      [] op = "CMP" -> 5
      [] op = "MOV_RR" -> 2
      [] op = "SHR" -> 3
      [] op = "XOR_RR" -> 2
      [] op = "OR_RR" -> 2
      [] op = "JCC" -> 2
      [] op = "RSB_INDEX" -> 10
      [] op = "RSB_LOCDESC" -> 10
      [] op = "RSB_STORE" -> 12
      [] op = "POP_RSB" -> 12
      [] op = "MXCSR_EXIT" -> 8
      [] op = "MXCSR_ENTRY" -> 8
      [] op = "CALL" -> 12
      [] op = "ALU" -> 3
      [] OTHER -> 1

Ins(op, a, b) == [i \in 1..InsSize(op) |-> IF i = 1 THEN <<op, a, b>> ELSE Cont]

\* Writing `cells` at address `at`, over what is there or past the end.
Write(m, at, cells) ==
    [i \in 1..Max(Len(m), at + Len(cells) - 1) |->
        IF i >= at /\ i < at + Len(cells) THEN cells[i - at + 1] ELSE m[i]]

(***************************************************************************)
(* The emitter state threaded through one call: the buffer, the cursor,    *)
(* the patch information, the descriptors (read only during a call), the   *)
(* pending references to the label being emitted, and ok = FALSE once an   *)
(* assertion has failed (nothing is emitted after that).                   *)
(***************************************************************************)
Put(es, cells) ==
    IF ~es.ok THEN es
    ELSE [es EXCEPT !.mem = Write(es.mem, es.cur, cells),
                    !.cur = es.cur + Len(cells)]

Fail(es) == [es EXCEPT !.ok = FALSE]

SetCodePtr(es, p) == [es EXCEPT !.cur = p]

\* code->align()
Align(es) ==
    LET pad == (AlignSize - (es.cur % AlignSize)) % AlignSize
    IN Put(es, [i \in 1..pad |-> Nop])

\* BlockOfCode::EnsurePatchLocationSize: pad with NOPs up to `size`, panic
\* when more than `size` bytes were emitted since `patch_location`.
EnsurePatchLocationSize(es, patch_location, size) ==
    LET current == es.cur - patch_location
    IN IF current > size THEN Fail(es)
       ELSE Put(es, [i \in 1..(size - current) |-> Nop])

\* BlockOfCode::ReturnFromRunCode(MXCSR_switch)
ReturnFromRunCode(es, mxcsr_switch) ==
    Put(es, Ins("JMP", IF mxcsr_switch THEN ReturnFromRunCodeAddress
                       ELSE ReturnNoMxcsrSwitchAddress, 0))

NoPatchInfo == [jg |-> <<>>, jmp |-> <<>>, mov_rcx |-> <<>>]

\* patch_information[h], as operator[] of the unordered_map reads it
PatchInfo(pi, h) == IF h \in DOMAIN pi THEN pi[h] ELSE NoPatchInfo

\* patch_information[h].<list>.emplace_back(code->getCurr())
RecordSite(es, h, list) ==
    IF ~es.ok THEN es
    ELSE LET old == PatchInfo(es.pi, h)
             new == [old EXCEPT ![list] = Append(@, es.cur)]
         IN [es EXCEPT !.pi = [k \in DOMAIN es.pi \cup {h} |->
                                   IF k = h THEN new ELSE es.pi[k]]]

\* EmitX64::GetBasicBlock: the descriptor, or none
HasBasicBlock(bd, loc) == UniqueHash(loc) \in DOMAIN bd
GetBasicBlock(bd, loc) == bd[UniqueHash(loc)]

(***************************************************************************)
(* Patch sites.                                                            *)
(***************************************************************************)
\* EmitPatchJg with a null target treated as the dispatcher return address
EmitPatchJgNullToReturn(es, target_code_ptr) ==
    LET patch_location == es.cur
        es1 == Put(es, Ins("JG", IF target_code_ptr # NullPtr THEN target_code_ptr
                                 ELSE ReturnFromRunCodeAddress, 0))
    IN EnsurePatchLocationSize(es1, patch_location, 6)

EmitPatchJg(es, target_code_ptr) ==
    LET patch_location == es.cur
        es1 == IF target_code_ptr # NullPtr
               THEN Put(es, Ins("JG", target_code_ptr, 0))
               ELSE es
    IN EnsurePatchLocationSize(es1, patch_location, 6)

\* EmitPatchJmp without the padding to the size of the site
EmitPatchJmpUnpadded(es, target_pc, target_code_ptr) ==
    IF target_code_ptr # NullPtr
    THEN Put(es, Ins("JMP", target_code_ptr, 0))
    ELSE Put(Put(es, Ins("MOV_PC", target_pc, 0)),
             Ins("JMP", ReturnFromRunCodeAddress, 0))

EmitPatchJmp(es, target_pc, target_code_ptr) ==
    LET patch_location == es.cur
        es1 == IF target_code_ptr # NullPtr
               THEN Put(es, Ins("JMP", target_code_ptr, 0))
               ELSE Put(Put(es, Ins("MOV_PC", target_pc, 0)),
                        Ins("JMP", ReturnFromRunCodeAddress, 0))
    IN EnsurePatchLocationSize(es1, patch_location, 13)

EmitPatchMovRcx(es, target_code_ptr) ==
    LET target == IF target_code_ptr = NullPtr
                  THEN ReturnFromRunCodeAddress
                  ELSE target_code_ptr
        patch_location == es.cur
    IN EnsurePatchLocationSize(Put(es, Ins("MOV_RCX", target, 0)),
                               patch_location, 10)

RECURSIVE PatchJgList(_, _, _, _)
PatchJgList(es, list, i, bb) ==
    IF i > Len(list) THEN es
    ELSE PatchJgList(EmitPatchJg(SetCodePtr(es, list[i]), bb), list, i + 1, bb)

RECURSIVE PatchJmpList(_, _, _, _, _)
PatchJmpList(es, list, i, h, bb) ==
    IF i > Len(list) THEN es
    ELSE PatchJmpList(EmitPatchJmp(SetCodePtr(es, list[i]), h[2], bb),
                      list, i + 1, h, bb)

RECURSIVE PatchMovRcxList(_, _, _, _)
PatchMovRcxList(es, list, i, bb) ==
    IF i > Len(list) THEN es
    ELSE PatchMovRcxList(EmitPatchMovRcx(SetCodePtr(es, list[i]), bb),
                         list, i + 1, bb)

\* Patch that leaves the JG sites alone
PatchSkipsJg(es, h, bb) ==
    LET save_code_ptr == es.cur
        patch_info == PatchInfo(es.pi, h)
        es2 == PatchJmpList(es, patch_info.jmp, 1, h, bb)
        es3 == PatchMovRcxList(es2, patch_info.mov_rcx, 1, bb)
    IN SetCodePtr(es3, save_code_ptr)

\* EmitX64::Patch(desc, bb); h is desc.UniqueHash(), h[2] is desc.PC().
\* (patch_information[h] creates an empty entry when there is none; an
\* absent entry and an empty one are not told apart here.)
Patch(es, h, bb) ==
    LET save_code_ptr == es.cur
        patch_info == PatchInfo(es.pi, h)
        es1 == PatchJgList(es, patch_info.jg, 1, bb)
        es2 == PatchJmpList(es1, patch_info.jmp, 1, h, bb)
        es3 == PatchMovRcxList(es2, patch_info.mov_rcx, 1, bb)
    IN SetCodePtr(es3, save_code_ptr)

(***************************************************************************)
(* The condition evaluator.  EmitCond loads CPSR into eax and emits a      *)
(* test that jumps to the returned label when the condition passes.  A     *)
(* jump operand "label" is the returned label, "fail" the local label      *)
(* bound at the end of the sequence.                                       *)
(***************************************************************************)
n_mask == {NBit}
z_mask == {ZBit}
c_mask == {CBit}
v_mask == {VBit}

\* The single-flag test with the jump sense inverted
CondTestInverted(mask, cc) ==
    << <<"MOV_R_CPSR", "eax", 0>>, <<"TEST", "eax", mask>>,
       <<"JCC", IF cc = "z" THEN "nz" ELSE "z", "label">> >>

CondTest(mask, cc) ==
    << <<"MOV_R_CPSR", "eax", 0>>, <<"TEST", "eax", mask>>, <<"JCC", cc, "label">> >>

CondGtLe(cc) ==
    << <<"MOV_R_CPSR", "eax", 0>>,
       <<"MOV_RR", "ebx", "eax">>,
       <<"MOV_RR", "esi", "eax">>,
       <<"SHR", "ebx", NBit>>,
       <<"SHR", "esi", VBit>>,
       <<"SHR", "eax", ZBit>>,
       <<"XOR_RR", "ebx", "esi">>,
       <<"OR_RR", "ebx", "eax">>,
       <<"TEST", "ebx", {0}>>,
       <<"JCC", cc, "label">> >>

\* The instruction sequence of each case of the switch; <<>> for the
\* default case, which asserts.
CondCode(cond) ==
    CASE cond = EQ -> CondTest(z_mask, "nz")
      [] cond = NE -> CondTest(z_mask, "z")
      [] cond = CS -> CondTest(c_mask, "nz")
      [] cond = CC -> CondTest(c_mask, "z")
      [] cond = MI -> CondTest(n_mask, "nz")
      [] cond = PL -> CondTest(n_mask, "z")
      [] cond = VS -> CondTest(v_mask, "nz")
      [] cond = VC -> CondTest(v_mask, "z")
      [] cond = HI -> << <<"MOV_R_CPSR", "eax", 0>>,
                         <<"AND", "eax", z_mask \cup c_mask>>,
                         <<"CMP", "eax", c_mask>>,
                         <<"JCC", "z", "label">> >>
      [] cond = LS -> << <<"MOV_R_CPSR", "eax", 0>>,
                         <<"AND", "eax", z_mask \cup c_mask>>,
                         <<"CMP", "eax", c_mask>>,
                         <<"JCC", "nz", "label">> >>
      [] cond = GE -> << <<"MOV_R_CPSR", "eax", 0>>,
                         <<"AND", "eax", n_mask \cup v_mask>>,
                         <<"JCC", "z", "label">>,
                         <<"CMP", "eax", n_mask \cup v_mask>>,
                         <<"JCC", "z", "label">> >>
      [] cond = LT -> << <<"MOV_R_CPSR", "eax", 0>>,
                         <<"AND", "eax", n_mask \cup v_mask>>,
                         <<"JCC", "z", "fail">>,
                         <<"CMP", "eax", n_mask \cup v_mask>>,
                         <<"JCC", "nz", "label">> >>
      [] cond = GT -> CondGtLe("z")
      [] cond = LE -> CondGtLe("nz")
      [] OTHER -> <<>>

RECURSIVE CodeSize(_, _)
CodeSize(code, i) ==
    IF i > Len(code) THEN 0 ELSE InsSize(code[i][1]) + CodeSize(code, i + 1)

\* Emits code[i..]; a jump to "fail" gets its final target at once, a jump
\* to "label" is emitted with target 0 and remembered in es.refs.
RECURSIVE EmitCondCode(_, _, _, _)
EmitCondCode(es, code, i, fail) ==
    IF i > Len(code) THEN es
    ELSE LET c == code[i]
             es1 == IF c[1] # "JCC" THEN Put(es, Ins(c[1], c[2], c[3]))
                    ELSE IF c[3] = "fail" THEN Put(es, Ins("JCC", c[2], fail))
                    ELSE Put([es EXCEPT !.refs = Append(@, es.cur)],
                             Ins("JCC", c[2], 0))
         IN EmitCondCode(es1, code, i + 1, fail)

\* EmitCond(code, cond): the returned label is es.refs, the list of the
\* jumps that wait for it.
EmitCondSequence(es, code) ==
    IF code = <<>> THEN Fail(Put(es, Ins("MOV_R_CPSR", "eax", 0)))
    ELSE EmitCondCode([es EXCEPT !.refs = <<>>], code, 1,
                      es.cur + CodeSize(code, 1))

EmitCond(es, cond) == EmitCondSequence(es, CondCode(cond))

\* code->L(label): every jump waiting for the label gets the current address
RECURSIVE BindLabel(_, _, _)
BindLabel(es, refs, i) ==
    IF ~es.ok \/ i > Len(refs) THEN es
    ELSE BindLabel([es EXCEPT !.mem[refs[i]] = <<"JCC", @[2], es.cur>>],
                   refs, i + 1)

(***************************************************************************)
(* Terminals.  A terminal is a record with a field kind and, by kind, the  *)
(* fields next, if_, then_, else_.                                         *)
(***************************************************************************)
\* EmitAddCycles that charges nothing
EmitAddCyclesNone(es, cycles) == es

\* cycles < std::numeric_limits<u32>::max(), compared by 16-bit halves
CyclesBelowU32Max(cycles) ==
    \/ (cycles \div 65536) < 65535
    \/ (cycles \div 65536) = 65535 /\ (cycles % 65536) < 65535

\* ASSERT(cycles < ...max()); sub qword[cycles_remaining], u32(cycles)
EmitAddCycles(es, cycles) ==
    IF CyclesBelowU32Max(cycles) THEN Put(es, Ins("SUB_CYCLES", cycles, 0))
    ELSE Fail(es)

\* The CPSR adjustment of LinkBlock and LinkBlockFast
EmitCpsrBit(es, bit, next_flag, initial_flag) ==
    IF next_flag # initial_flag
    THEN IF next_flag THEN Put(es, Ins("OR_CPSR", bit, 0))
                      ELSE Put(es, Ins("AND_CPSR", bit, 0))
    ELSE es

EmitCpsrTE(es, next, initial_location) ==
    EmitCpsrBit(EmitCpsrBit(es, TBit, next.T, initial_location.T),
                EBit, next.E, initial_location.E)

EmitTerminalInterpret(es, terminal, initial_location) ==
    IF terminal.next.T # initial_location.T \/ terminal.next.E # initial_location.E
    THEN Fail(es)
    ELSE LET es1 == Put(es, Ins("MOV_PC", terminal.next.pc, 0))
             es2 == Put(es1, Ins("MXCSR_EXIT", 0, 0))
             es3 == Put(es2, Ins("CALL", "InterpreterFallback", 0))
         IN ReturnFromRunCode(es3, FALSE)

EmitTerminalReturnToDispatch(es) == ReturnFromRunCode(es, TRUE)

\* next_bb->code_ptr when GetBasicBlock(next) finds a block, else nullptr
NextCodePtr(bd, next) ==
    IF HasBasicBlock(bd, next) THEN GetBasicBlock(bd, next).code_ptr ELSE NullPtr

EmitTerminalLinkBlock(es, terminal, initial_location) ==
    LET es1 == EmitCpsrTE(es, terminal.next, initial_location)
        es2 == Put(es1, Ins("CMP_CYCLES", 0, 0))
        es3 == RecordSite(es2, UniqueHash(terminal.next), "jg")
        es4 == EmitPatchJg(es3, NextCodePtr(es.bd, terminal.next))
        es5 == Put(es4, Ins("MOV_PC", terminal.next.pc, 0))
    IN ReturnFromRunCode(es5, TRUE)

EmitTerminalLinkBlockFast(es, terminal, initial_location) ==
    LET es1 == EmitCpsrTE(es, terminal.next, initial_location)
        es2 == RecordSite(es1, UniqueHash(terminal.next), "jmp")
    IN EmitPatchJmp(es2, terminal.next.pc, NextCodePtr(es.bd, terminal.next))

EmitTerminalPopRSBHint(es) ==
    Put(Put(es, Ins("POP_RSB", 0, 0)), Ins("JMP_RAX", 0, 0))

\* CheckHalt that emits no test of the halt byte
EmitCheckHaltNone(es) == es

EmitCheckHalt(es) ==
    Put(Put(es, Ins("CMP_HALT", 0, 0)), Ins("JNE_ABS", ReturnFromRunCodeAddress, 0))

\* The label EmitCond returns when called in state es.
PassLabel(es, cond) == EmitCond(es, cond).refs

RECURSIVE EmitTerminal(_, _, _)
EmitTerminal(es, terminal, initial_location) ==
    CASE terminal.kind = "Interpret" ->
            EmitTerminalInterpret(es, terminal, initial_location)
      [] terminal.kind = "ReturnToDispatch" ->
            EmitTerminalReturnToDispatch(es)
      [] terminal.kind = "LinkBlock" ->
            EmitTerminalLinkBlock(es, terminal, initial_location)
      [] terminal.kind = "LinkBlockFast" ->
            EmitTerminalLinkBlockFast(es, terminal, initial_location)
      [] terminal.kind = "PopRSBHint" ->
            EmitTerminalPopRSBHint(es)
      [] terminal.kind = "If" ->
            EmitTerminal(
                BindLabel(EmitTerminal(EmitCond(es, terminal.if_),
                                       terminal.else_, initial_location),
                          PassLabel(es, terminal.if_), 1),
                terminal.then_, initial_location)
      [] terminal.kind = "CheckHalt" ->
            EmitTerminal(EmitCheckHalt(es), terminal.else_, initial_location)
      [] OTHER -> Fail(es)

\* EmitCondPrelude whose fail path charges the block's cycle count
EmitCondPreludeBlockCycles(es, block) ==
    IF block.cond = AL
    THEN IF block.has_cond_failed THEN Fail(es) ELSE es
    ELSE IF ~block.has_cond_failed THEN Fail(es)
    ELSE LET es1 == EmitCond(es, block.cond)
             es2 == EmitAddCycles(es1, block.cycle_count)
             es3 == EmitTerminalLinkBlock(
                        es2, [kind |-> "LinkBlock", next |-> block.cond_failed],
                        block.location)
         IN BindLabel(es3, PassLabel(es, block.cond), 1)

\* EmitX64::EmitCondPrelude
EmitCondPrelude(es, block) ==
    IF block.cond = AL
    THEN IF block.has_cond_failed THEN Fail(es) ELSE es
    ELSE IF ~block.has_cond_failed THEN Fail(es)
    ELSE LET es1 == EmitCond(es, block.cond)
             es2 == EmitAddCycles(es1, block.cond_failed_cycle_count)
             es3 == EmitTerminalLinkBlock(
                        es2, [kind |-> "LinkBlock", next |-> block.cond_failed],
                        block.location)
         IN BindLabel(es3, PassLabel(es, block.cond), 1)

(***************************************************************************)
(* IR instructions.  An instruction is a record [id, op, arg]; the arg of  *)
(* a pseudo-operation is the id of the instruction it is attached to.  The *)
(* block's instruction list is es.insts while the block is emitted.        *)
(***************************************************************************)
\* inst->GetAssociatedPseudoOperation(kind): the id of the pseudo-op, or 0
AssociatedPseudoOperation(insts, id, kind) ==
    IF \E j \in 1..Len(insts) : insts[j].op = kind /\ insts[j].arg = id
    THEN insts[CHOOSE j \in 1..Len(insts) :
                   insts[j].op = kind /\ insts[j].arg = id].id
    ELSE 0

\* block.Instructions().erase(inst), at position j
EraseAt(insts, j) ==
    [k \in 1..(Len(insts) - 1) |-> IF k < j THEN insts[k] ELSE insts[k + 1]]

\* EraseInstruction(block, inst)
EraseInstruction(insts, inst_id) ==
    EraseAt(insts, CHOOSE j \in 1..Len(insts) : insts[j].id = inst_id)

\* An IR::Value that is an immediate u64, and one that is the result of the
\* instruction with the given id
ImmU64(value) == [immediate |-> TRUE, value |-> value]
ValueOfInst(id) == [immediate |-> FALSE, inst |-> id]

\* Value::IsImmediate
IsImmediate(arg) == arg.immediate

\* EmitX64::EmitPushRSB: ASSERT(inst->GetArg(0).IsImmediate()), then the
\* push code with the MOV RCX site recorded for the hash
EmitPushRSB(es, arg) ==
    IF ~IsImmediate(arg) THEN Fail(es)
    ELSE
    LET unique_hash_of_target == arg.value
        target_code_ptr == IF unique_hash_of_target \in DOMAIN es.bd
                           THEN es.bd[unique_hash_of_target].code_ptr
                           ELSE ReturnFromRunCodeAddress
        es1 == Put(es, Ins("RSB_INDEX", 0, 0))
        es2 == Put(es1, Ins("RSB_LOCDESC", unique_hash_of_target[1],
                            unique_hash_of_target[2]))
        es3 == RecordSite(es2, unique_hash_of_target, "mov_rcx")
        es4 == EmitPatchMovRcx(es3, target_code_ptr)
    IN Put(es4, Ins("RSB_STORE", 0, 0))

\* if (pseudo_inst) { EraseInstruction(block, pseudo_inst); code->set<flag> }
MaterialiseFlag(es, pseudo_inst, setcc) ==
    IF pseudo_inst = 0 THEN es
    ELSE Put([es EXCEPT !.insts = EraseInstruction(@, pseudo_inst)],
             Ins("ALU", setcc, 0))

\* EmitX64::EmitAddWithCarry: both pseudo-ops are looked up first; after the
\* arithmetic each one present is erased and its flag materialised.
EmitAddWithCarry(es, inst) ==
    MaterialiseFlag(
        MaterialiseFlag(
            Put(es, Ins("ALU", "adc", 0)),
            AssociatedPseudoOperation(es.insts, inst.id, "GetCarryFromOp"), "setc"),
        AssociatedPseudoOperation(es.insts, inst.id, "GetOverflowFromOp"), "seto")

\* A pseudo-operation emit rule that lets the instruction pass
EmitPseudoOpIgnored(es) == es

\* ASSERT_MSG(false, "should never happen")
EmitGetCarryFromOp(es) == Fail(es)
EmitGetOverflowFromOp(es) == Fail(es)
EmitGetGEFromOp(es) == Fail(es)

\* overflow_inst->ReplaceUsesWith(value): the instruction stays in the list
\* as an Identity of the value
ReplaceUsesWith(insts, inst_id, value) ==
    [k \in 1..Len(insts) |->
        IF insts[k].id = inst_id
        THEN [id |-> inst_id, op |-> "Identity", arg |-> value]
        ELSE insts[k]]

\* EmitX64::EmitIdentity: RegisterAddDef at most, no code
EmitIdentity(es, inst) == es

\* The carry pseudo-op of a shift: erased before the code of the carry form
EmitShiftWithCarryOp(es, inst) ==
    MaterialiseFlag(Put(es, Ins("ALU", "shl", 0)),
                    AssociatedPseudoOperation(es.insts, inst.id, "GetCarryFromOp"), "setc")

\* EmitX64::EmitSignedSaturatedAdd
EmitSignedSaturatedAddOp(es, inst) ==
    MaterialiseFlag(Put(es, Ins("ALU", "cmovo", 0)),
                    AssociatedPseudoOperation(es.insts, inst.id, "GetOverflowFromOp"), "seto")

\* SignedSaturation that erases the overflow pseudo-op when N = 32 too
EmitSignedSaturationErasing(es, inst) ==
    IF inst.arg < 1 \/ inst.arg > 32 THEN Fail(es)
    ELSE IF inst.arg = 32
    THEN IF AssociatedPseudoOperation(es.insts, inst.id, "GetOverflowFromOp") # 0
         THEN [es EXCEPT !.insts = EraseInstruction(@,
                  AssociatedPseudoOperation(es.insts, inst.id, "GetOverflowFromOp"))]
         ELSE es
    ELSE MaterialiseFlag(
             Put(es, Ins("ALU", "cmovbe", 0)),
             AssociatedPseudoOperation(es.insts, inst.id, "GetOverflowFromOp"), "seta")

\* EmitX64::EmitSignedSaturation, inst.arg = N: with N = 32 the result is
\* the argument and the overflow pseudo-op is replaced by the constant
\* false, not erased.
EmitSignedSaturationOp(es, inst) ==
    IF inst.arg < 1 \/ inst.arg > 32 THEN Fail(es)
    ELSE IF inst.arg = 32
    THEN IF AssociatedPseudoOperation(es.insts, inst.id, "GetOverflowFromOp") # 0
         THEN [es EXCEPT !.insts = ReplaceUsesWith(@,
                  AssociatedPseudoOperation(es.insts, inst.id, "GetOverflowFromOp"),
                  FALSE)]
         ELSE es
    ELSE MaterialiseFlag(
             Put(es, Ins("ALU", "cmovbe", 0)),
             AssociatedPseudoOperation(es.insts, inst.id, "GetOverflowFromOp"), "seta")

\* EmitX64::EmitPackedAddU8: the GE pseudo-op is erased first
EmitPackedAddU8Op(es, inst) ==
    MaterialiseFlag(Put(es, Ins("ALU", "paddb", 0)),
                    AssociatedPseudoOperation(es.insts, inst.id, "GetGEFromOp"), "pext")

\* The opcodes by what their emit rules do with pseudo-operations.
\* MostSignificantWord, the shifts and the rotates take GetCarryFromOp
CarryOpcodes ==
    {"MostSignificantWord", "LogicalShiftLeft", "LogicalShiftRight",
     "ArithmeticShiftRight", "RotateRight", "RotateRightExtended"}

\* AddWithCarry and SubWithCarry take GetCarryFromOp and GetOverflowFromOp
ArithOpcodes == {"AddWithCarry", "SubWithCarry"}

\* these take GetOverflowFromOp and erase it whatever their arguments
OverflowOpcodes == {"SignedSaturatedAdd", "SignedSaturatedSub"}

\* the opcodes with an emit rule that takes GetOverflowFromOp
OverflowProducers == OverflowOpcodes \cup {"UnsignedSaturation", "SignedSaturation"}

\* the signed and unsigned 32-bit conversions to floating point; the arg
\* of the instruction is round_to_nearest
FPFromIntOpcodes == {"FPS32ToSingle", "FPU32ToSingle", "FPS32ToDouble", "FPU32ToDouble"}

\* the arg of the instruction is the extended register: S0..S31 are
\* 0..31 and D0..D31 are 32..63
ExtReg32Opcodes == {"GetExtendedRegister32", "SetExtendedRegister32"}
ExtReg64Opcodes == {"GetExtendedRegister64", "SetExtendedRegister64"}

\* the packed adds and subtractions take GetGEFromOp
GEOpcodes ==
    {"PackedAddU8", "PackedAddS8", "PackedAddU16", "PackedAddS16",
     "PackedSubU8", "PackedSubS8", "PackedSubU16", "PackedSubS16"}

\* rules of one RegisterAddDef and no code
RegisterAddDefOpcodes ==
    {"LeastSignificantWord", "LeastSignificantHalf", "LeastSignificantByte"}

\* the coprocessor rules; the arg of the instruction is the action the
\* coprocessor compiles it to, "none" when there is no coprocessor or action
CoprocOpcodes ==
    {"CoprocInternalOperation", "CoprocSendOneWord", "CoprocSendTwoWords",
     "CoprocGetOneWord", "CoprocGetTwoWords", "CoprocLoadWords", "CoprocStoreWords"}

\* the other opcodes: their rules emit code and touch no other instruction
PlainOpcodes ==
    {"GetRegister", "GetCpsr", "SetCpsr",
     "GetNFlag", "SetNFlag", "GetZFlag", "SetZFlag", "GetCFlag", "SetCFlag",
     "GetVFlag", "SetVFlag", "OrQFlag", "GetGEFlags", "SetGEFlags", "BXWritePC",
     "CallSupervisor", "GetFpscr", "SetFpscr", "GetFpscrNZCV", "SetFpscrNZCV",
     "Pack2x32To1x64", "MostSignificantBit", "IsZero", "IsZero64",
     "Add64", "Sub64", "Mul64", "And", "Eor", "Or", "Not",
     "SignExtendWordToLong", "SignExtendHalfToWord", "SignExtendByteToWord",
     "ZeroExtendWordToLong", "ZeroExtendHalfToWord", "ZeroExtendByteToWord",
     "ByteReverseWord", "ByteReverseHalf", "ByteReverseDual", "CountLeadingZeros",
     "PackedHalvingAddU8", "PackedHalvingAddU16", "PackedHalvingAddS8",
     "PackedHalvingAddS16", "PackedHalvingSubU8", "PackedHalvingSubS8",
     "PackedHalvingSubU16", "PackedHalvingSubS16", "PackedHalvingSubAddU16",
     "PackedHalvingSubAddS16", "PackedSaturatedAddU8", "PackedSaturatedAddS8",
     "PackedSaturatedSubU8", "PackedSaturatedSubS8", "PackedSaturatedAddU16",
     "PackedSaturatedAddS16", "PackedSaturatedSubU16", "PackedSaturatedSubS16",
     "PackedAbsDiffSumS8", "TransferFromFP32", "TransferFromFP64",
     "TransferToFP32", "TransferToFP64", "FPAbs32", "FPAbs64", "FPNeg32",
     "FPNeg64", "FPAdd32", "FPAdd64", "FPDiv32", "FPDiv64", "FPMul32", "FPMul64",
     "FPSqrt32", "FPSqrt64", "FPSub32", "FPSub64", "FPCompare32", "FPCompare64",
     "FPSingleToDouble", "FPDoubleToSingle", "FPSingleToS32", "FPSingleToU32",
     "FPDoubleToS32", "FPDoubleToU32", "ClearExclusive",
     "ReadMemory8", "ReadMemory16", "ReadMemory32", "ReadMemory64",
     "WriteMemory8", "WriteMemory16", "WriteMemory32", "WriteMemory64",
     "ExclusiveWriteMemory8", "ExclusiveWriteMemory16", "ExclusiveWriteMemory32",
     "ExclusiveWriteMemory64"}

\* The code of a rule whose bytes are not told apart
EmitPlainOp(es, inst) == Put(es, Ins("ALU", inst.op, 0))

\* Arm::IsSingleExtReg, Arm::IsDoubleExtReg
IsSingleExtReg(reg) == reg \in 0..31
IsDoubleExtReg(reg) == reg \in 32..63

\* EmitGetExtendedRegister32, EmitSetExtendedRegister32
EmitExtendedRegister32Op(es, inst) ==
    IF IsSingleExtReg(inst.arg) THEN Put(es, Ins("ALU", inst.op, 0)) ELSE Fail(es)

\* EmitGetExtendedRegister64, EmitSetExtendedRegister64
EmitExtendedRegister64Op(es, inst) ==
    IF IsDoubleExtReg(inst.arg) THEN Put(es, Ins("ALU", inst.op, 0)) ELSE Fail(es)

\* EmitLogicalShiftRight64; the arg is [imm, shift]
EmitLogicalShiftRight64Op(es, inst) ==
    IF ~inst.arg.imm THEN Fail(es)
    ELSE IF ~(inst.arg.shift < 64) THEN Fail(es)
    ELSE Put(es, Ins("ALU", inst.op, 0))

\* EmitFPS32ToSingle, EmitFPU32ToSingle, EmitFPS32ToDouble, EmitFPU32ToDouble
EmitFPFromIntOp(es, inst) ==
    IF inst.arg THEN Fail(es) ELSE Put(es, Ins("ALU", inst.op, 0))

\* EmitSetExclusive; the arg tells whether the size is an immediate
EmitSetExclusiveOp(es, inst) ==
    IF ~inst.arg THEN Fail(es) ELSE Put(es, Ins("ALU", inst.op, 0))

\* EmitX64::EmitUnsignedSaturation, inst.arg = N
EmitUnsignedSaturationOp(es, inst) ==
    IF ~(inst.arg <= 31) THEN Fail(es)
    ELSE MaterialiseFlag(
             Put(es, Ins("ALU", "cmovbe", 0)),
             AssociatedPseudoOperation(es.insts, inst.id, "GetOverflowFromOp"), "seta")

\* A coprocessor rule: EmitCoprocessorException asserts at emission
EmitCoprocOp(es, inst) ==
    IF inst.arg = "none" THEN Fail(es) ELSE Put(es, Ins("ALU", inst.op, 0))

\* The switch of the instruction loop: the emit rule of one opcode; the
\* default case is an opcode value outside the enumeration.
EmitInst(es, inst) ==
    CASE inst.op = "SetRegister" -> Put(es, Ins("MOV_REG", inst.arg[1], inst.arg[2]))
      [] inst.op = "PushRSB" -> EmitPushRSB(es, inst.arg)
      [] inst.op \in ArithOpcodes -> EmitAddWithCarry(es, inst)
      [] inst.op = "Mul" -> Put(es, Ins("ALU", "imul", 0))
      [] inst.op = "Breakpoint" -> Put(es, Ins("INT3", 0, 0))
      [] inst.op = "Identity" -> EmitIdentity(es, inst)
      [] inst.op \in RegisterAddDefOpcodes -> EmitIdentity(es, inst)
      [] inst.op \in CarryOpcodes -> EmitShiftWithCarryOp(es, inst)
      [] inst.op \in OverflowOpcodes -> EmitSignedSaturatedAddOp(es, inst)
      [] inst.op = "UnsignedSaturation" -> EmitUnsignedSaturationOp(es, inst)
      [] inst.op = "SignedSaturation" -> EmitSignedSaturationOp(es, inst)
      [] inst.op \in ExtReg32Opcodes -> EmitExtendedRegister32Op(es, inst)
      [] inst.op \in ExtReg64Opcodes -> EmitExtendedRegister64Op(es, inst)
      [] inst.op = "LogicalShiftRight64" -> EmitLogicalShiftRight64Op(es, inst)
      [] inst.op \in FPFromIntOpcodes -> EmitFPFromIntOp(es, inst)
      [] inst.op = "SetExclusive" -> EmitSetExclusiveOp(es, inst)
      [] inst.op \in GEOpcodes -> EmitPackedAddU8Op(es, inst)
      [] inst.op = "GetCarryFromOp" -> EmitGetCarryFromOp(es)
      [] inst.op = "GetOverflowFromOp" -> EmitGetOverflowFromOp(es)
      [] inst.op = "GetGEFromOp" -> EmitGetGEFromOp(es)
      [] inst.op \in CoprocOpcodes -> EmitCoprocOp(es, inst)
      [] inst.op \in PlainOpcodes -> EmitPlainOp(es, inst)
      [] OTHER -> Fail(es)

\* The instruction loop of Emit, over the list as the emit rules leave it.
RECURSIVE EmitInsts(_, _)
EmitInsts(es, i) ==
    IF ~es.ok \/ i > Len(es.insts) THEN es
    ELSE EmitInsts(EmitInst(es, es.insts[i]), i + 1)

(***************************************************************************)
(* EmitX64::Emit.  Besides the buffer and the maps, the emitter state      *)
(* keeps the start pointer, the returned descriptor, and the addresses     *)
(* (marks) of the block body, of the cycle subtraction and of the          *)
(* terminal.                                                               *)
(***************************************************************************)
Mark(es) == [es EXCEPT !.marks = Append(@, es.cur)]

\* const u8* const emitted_code_start_ptr = code->getCurr();
BeginBlock(es, block) ==
    [es EXCEPT !.start = es.cur, !.insts = block.insts, !.marks = <<>>]

\* Patch(descriptor, emitted_code_start_ptr)
PatchNewBlock(es, h) == IF es.ok THEN Patch(es, h, es.start) ELSE es

\* block_descriptors[hash] = {emitted_code_start_ptr, emitted_code_size}
RegisterBlock(es, h) ==
    IF ~es.ok THEN es
    ELSE [es EXCEPT
             !.desc = [code_ptr |-> es.start, size |-> es.cur - es.start],
             !.bd = [k \in DOMAIN es.bd \cup {h} |->
                        IF k = h
                        THEN [code_ptr |-> es.start, size |-> es.cur - es.start]
                        ELSE es.bd[k]]]

EmitBlock(es, block) ==
    LET es1 == BeginBlock(Align(es), block)
        es2 == EmitCondPrelude(es1, block)
        es3 == EmitInsts(Mark(es2), 1)
        es4 == EmitAddCycles(Mark(es3), block.cycle_count)
        es5 == EmitTerminal(Mark(es4), block.terminal, block.location)
        es6 == Put(es5, Ins("INT3", 0, 0))
        es7 == PatchNewBlock(es6, UniqueHash(block.location))
    IN RegisterBlock(es7, UniqueHash(block.location))

(***************************************************************************)
(* Execution of emitted code.  g is the JitState, h the host registers     *)
(* and flags.  Exec runs from address a until control leaves the block:    *)
(* to another block's entry, to the dispatcher, or into a trap.            *)
(***************************************************************************)
RECURSIVE BitAnd(_, _)
BitAnd(x, y) ==
    IF x = 0 \/ y = 0 THEN 0
    ELSE (x % 2) * (y % 2) + 2 * BitAnd(x \div 2, y \div 2)

Host0 == [eax |-> {}, ebx |-> {}, esi |-> {}, zf |-> FALSE, gt |-> FALSE,
          rcx |-> 0, rax |-> 0, loc_desc_reg |-> <<0, 0>>, index_reg |-> 0]

\* Where a jump to address t lands.
Land(m, t) ==
    IF t < 1 \/ t > Len(m) THEN Trap
    ELSE IF m[t][1] \in {"RFRC", "RFRC_NOSWITCH"} THEN Dispatch
    ELSE t

\* A push that stores without the scan
RsbStoreAlways(g, h) ==
    [g EXCEPT !.rsb_ptr = h.index_reg,
              !.rsb_location_descriptors[h.index_reg] = h.loc_desc_reg,
              !.rsb_codeptrs[h.index_reg] = h.rcx]

\* A push that stores at the current slot
RsbStoreInPlace(g, h) ==
    IF \E i \in 0..(RSBSize - 1) : g.rsb_location_descriptors[i] = h.loc_desc_reg
    THEN g
    ELSE [g EXCEPT !.rsb_location_descriptors[g.rsb_ptr] = h.loc_desc_reg,
                   !.rsb_codeptrs[g.rsb_ptr] = h.rcx]

\* The scan and conditional store that ends an RSB push.
RsbStore(g, h) ==
    IF \E i \in 0..(RSBSize - 1) : g.rsb_location_descriptors[i] = h.loc_desc_reg
    THEN g
    ELSE [g EXCEPT !.rsb_ptr = h.index_reg,
                   !.rsb_location_descriptors[h.index_reg] = h.loc_desc_reg,
                   !.rsb_codeptrs[h.index_reg] = h.rcx]

\* PopRSBHint: the code pointer of the matching slot (the last one that
\* matches, as the CMOVE chain leaves it), else the dispatcher return.
RECURSIVE RsbLookup(_, _, _, _)
RsbLookup(g, rbx, i, rax) ==
    IF i >= RSBSize THEN rax
    ELSE RsbLookup(g, rbx, i + 1,
                   IF g.rsb_location_descriptors[i] = rbx
                   THEN g.rsb_codeptrs[i] ELSE rax)

\* The hash without the T and E bits of the CPSR
PopRsbHashOfPC(g) == <<g.FPSCR_mode, g.Reg["PC"]>>

PopRsbHash(g) == <<HashUpper(g.Cpsr, g.FPSCR_mode), g.Reg["PC"]>>

SymDiff(x, y) == (x \ y) \cup (y \ x)

RECURSIVE Exec(_, _, _, _)
RECURSIVE ExecFrom(_, _, _, _)
ExecFrom(m, a, g, h) ==
    IF a < 1 \/ a > Len(m) THEN [pc |-> Trap, g |-> g]
    ELSE
    LET c == m[a]
        op == c[1]
        nx == a + InsSize(op)
    IN
    CASE op = "NOP" -> Exec(m, nx, g, h)
      [] op = "ALU" -> Exec(m, nx, g, h)
      [] op = "MXCSR_EXIT" -> Exec(m, nx, g, h)
      [] op = "MXCSR_ENTRY" -> Exec(m, nx, g, h)
      [] op = "CALL" -> Exec(m, nx, g, h)
      [] op = "RFRC" -> [pc |-> Dispatch, g |-> g]
      [] op = "RFRC_NOSWITCH" -> [pc |-> Dispatch, g |-> g]
      [] op = "JMP" -> [pc |-> Land(m, c[2]), g |-> g]
      [] op = "JMP_RAX" -> [pc |-> Land(m, h.rax), g |-> g]
      [] op = "JG" -> IF h.gt THEN [pc |-> Land(m, c[2]), g |-> g]
                      ELSE Exec(m, nx, g, h)
      [] op = "JNE_ABS" -> IF ~h.zf THEN [pc |-> Land(m, c[2]), g |-> g]
                           ELSE Exec(m, nx, g, h)
      [] op = "JCC" -> IF (c[2] = "z" /\ h.zf) \/ (c[2] = "nz" /\ ~h.zf)
                       THEN Exec(m, c[3], g, h)
                       ELSE Exec(m, nx, g, h)
      [] op = "MOV_PC" -> Exec(m, nx, [g EXCEPT !.Reg["PC"] = c[2]], h)
      [] op = "MOV_REG" -> Exec(m, nx, [g EXCEPT !.Reg[c[2]] = c[3]], h)
      [] op = "MOV_RCX" -> Exec(m, nx, g, [h EXCEPT !.rcx = c[2]])
      [] op = "SUB_CYCLES" ->
            Exec(m, nx, [g EXCEPT !.cycles_remaining = @ - c[2]], h)
      [] op = "CMP_CYCLES" ->
            Exec(m, nx, g, [h EXCEPT !.zf = (g.cycles_remaining = 0),
                                     !.gt = (g.cycles_remaining > 0)])
      [] op = "CMP_HALT" ->
            Exec(m, nx, g, [h EXCEPT !.zf = (g.halt_requested = 0)])
      [] op = "OR_CPSR" -> Exec(m, nx, [g EXCEPT !.Cpsr = @ \cup {c[2]}], h)
      [] op = "AND_CPSR" -> Exec(m, nx, [g EXCEPT !.Cpsr = @ \ {c[2]}], h)
      [] op = "MOV_R_CPSR" -> Exec(m, nx, g, [h EXCEPT ![c[2]] = g.Cpsr])
      [] op = "TEST" ->
            Exec(m, nx, g, [h EXCEPT !.zf = ((h[c[2]] \cap c[3]) = {})])
      [] op = "AND" ->
            Exec(m, nx, g, [h EXCEPT ![c[2]] = h[c[2]] \cap c[3],
                                     !.zf = ((h[c[2]] \cap c[3]) = {})])
      [] op = "CMP" -> Exec(m, nx, g, [h EXCEPT !.zf = (h[c[2]] = c[3])])
      [] op = "MOV_RR" -> Exec(m, nx, g, [h EXCEPT ![c[2]] = h[c[3]]])
      [] op = "SHR" ->
            Exec(m, nx, g, [h EXCEPT ![c[2]] = ShrBits(h[c[2]], c[3]),
                                     !.zf = (ShrBits(h[c[2]], c[3]) = {})])
      [] op = "XOR_RR" ->
            Exec(m, nx, g, [h EXCEPT ![c[2]] = SymDiff(h[c[2]], h[c[3]]),
                                     !.zf = (SymDiff(h[c[2]], h[c[3]]) = {})])
      [] op = "OR_RR" ->
            Exec(m, nx, g, [h EXCEPT ![c[2]] = h[c[2]] \cup h[c[3]],
                                     !.zf = ((h[c[2]] \cup h[c[3]]) = {})])
      [] op = "RSB_INDEX" ->
            Exec(m, nx, g, [h EXCEPT !.index_reg = BitAnd(g.rsb_ptr + 1, RSBSize - 1)])
      [] op = "RSB_LOCDESC" ->
            Exec(m, nx, g, [h EXCEPT !.loc_desc_reg = <<c[2], c[3]>>])
      [] op = "RSB_STORE" -> Exec(m, nx, RsbStore(g, h), h)
      [] op = "POP_RSB" ->
            Exec(m, nx, g, [h EXCEPT !.rax = RsbLookup(g, PopRsbHash(g), 0,
                                                        ReturnFromRunCodeAddress)])
      [] OTHER -> [pc |-> Trap, g |-> g]

\* One step at a time: the address and the two states are values when the
\* instruction at a is run.
Exec(m, a, g, h) ==
    CHOOSE r \in {ExecFrom(mv, av, gv, hv) : mv \in {m}, av \in {a}, gv \in {g}, hv \in {h}} : TRUE

(***************************************************************************)
(* The IR blocks handed to Emit.                                           *)
(***************************************************************************)
Inst(id, op, arg) == [id |-> id, op |-> op, arg |-> arg]

Block(location, cond, has_cond_failed, cond_failed, cond_failed_cycle_count, insts, terminal, cycle_count) ==
    [location |-> location, cond |-> cond, has_cond_failed |-> has_cond_failed,
     cond_failed |-> cond_failed,
     cond_failed_cycle_count |-> cond_failed_cycle_count,
     insts |-> insts, terminal |-> terminal, cycle_count |-> cycle_count]

LinkBlock(next) == [kind |-> "LinkBlock", next |-> next]
LinkBlockFast(next) == [kind |-> "LinkBlockFast", next |-> next]
Interpret(next) == [kind |-> "Interpret", next |-> next]
ReturnToDispatch == [kind |-> "ReturnToDispatch"]
PopRSBHint == [kind |-> "PopRSBHint"]
If(if_, then_, else_) == [kind |-> "If", if_ |-> if_, then_ |-> then_, else_ |-> else_]
CheckHalt(else_) == [kind |-> "CheckHalt", else_ |-> else_]

\* Blocks 1..4 are well formed; 5..9 violate the IR contract.
Blocks ==
    << Block(LocA, AL, FALSE, LocA, 0,
             << Inst(1, "PushRSB", ImmU64(UniqueHash(LocC))) >>,
             LinkBlock(LocB), 1),
       Block(LocB, EQ, TRUE, LocC, 1,
             << Inst(1, "SetRegister", <<"R0", 1>>),
                Inst(2, "PushRSB", ImmU64(UniqueHash(LocA))) >>,
             CheckHalt(LinkBlockFast(LocA)), 2),
       Block(LocC, AL, FALSE, LocC, 0,
             << Inst(1, "SetRegister", <<"PC", LocA.pc>>),
                Inst(2, "AddWithCarry", 0),
                Inst(3, "GetCarryFromOp", 2),
                Inst(4, "GetOverflowFromOp", 2) >>,
             If(CS, PopRSBHint, Interpret(LocC)), 1),
       Block(LocC, AL, FALSE, LocC, 0,
             << Inst(1, "PushRSB", ImmU64(UniqueHash(LocC))) >>,
             If(NE, LinkBlock(LocC), ReturnToDispatch), 2),
       Block(LocB, AL, FALSE, LocB, 0,
             << Inst(1, "Mul", 0),
                Inst(2, "GetCarryFromOp", 1) >>,
             ReturnToDispatch, 1),
       Block(LocB, AL, FALSE, LocB, 0,
             << Inst(1, "Mul", 0),
                Inst(2, "GetOverflowFromOp", 1) >>,
             ReturnToDispatch, 1),
       Block(LocB, AL, FALSE, LocB, 0,
             << Inst(1, "AddWithCarry", 0),
                Inst(2, "GetGEFromOp", 1) >>,
             ReturnToDispatch, 1),
       Block(LocC, AL, TRUE, LocA, 1,
             << >>,
             ReturnToDispatch, 1),
       Block(LocC, NE, FALSE, LocC, 0,
             << >>,
             ReturnToDispatch, 1) >>

(***************************************************************************)
(* The backend as one record, and its operations as functions on it.       *)
(***************************************************************************)
EmptyMap == [k \in {} |-> 0]

NoOp == [op |-> "none", h |-> <<0, 0>>, b |-> 0]

Backend0 ==
    [mem |-> Prelude, cursor |-> Len(Prelude) + 1,
     block_descriptors |-> EmptyMap, patch_information |-> EmptyMap,
     aborted |-> FALSE, emitLog |-> <<>>, last |-> NoOp,
     unpatchedSites |-> {}, invalidated |-> {}, clearedSites |-> {}]

Backend ==
    [mem |-> mem, cursor |-> cursor,
     block_descriptors |-> block_descriptors,
     patch_information |-> patch_information,
     aborted |-> aborted, emitLog |-> emitLog, last |-> last,
     unpatchedSites |-> unpatchedSites, invalidated |-> invalidated,
     clearedSites |-> clearedSites]

BackendIs(B) ==
    /\ mem = B.mem
    /\ cursor = B.cursor
    /\ block_descriptors = B.block_descriptors
    /\ patch_information = B.patch_information
    /\ aborted = B.aborted
    /\ emitLog = B.emitLog
    /\ last = B.last
    /\ unpatchedSites = B.unpatchedSites
    /\ invalidated = B.invalidated
    /\ clearedSites = B.clearedSites

SetBackend(B) ==
    /\ mem' = B.mem
    /\ cursor' = B.cursor
    /\ block_descriptors' = B.block_descriptors
    /\ patch_information' = B.patch_information
    /\ aborted' = B.aborted
    /\ emitLog' = B.emitLog
    /\ last' = B.last
    /\ unpatchedSites' = B.unpatchedSites
    /\ invalidated' = B.invalidated
    /\ clearedSites' = B.clearedSites

NoDesc == [code_ptr |-> NullPtr, size |-> 0]

EmitterState(B) ==
    [mem |-> B.mem, cur |-> B.cursor, pi |-> B.patch_information,
     bd |-> B.block_descriptors, ok |-> TRUE, refs |-> <<>>,
     start |-> NullPtr, desc |-> NoDesc, marks |-> <<>>, insts |-> <<>>]

\* Every site recorded in patch information pi, as <<kind, address, hash>>.
SitesOf(pi) ==
    UNION {   {<<"jg", pi[k].jg[i], k>> : i \in 1..Len(pi[k].jg)}
         \cup {<<"jmp", pi[k].jmp[i], k>> : i \in 1..Len(pi[k].jmp)}
         \cup {<<"mov_rcx", pi[k].mov_rcx[i], k>> : i \in 1..Len(pi[k].mov_rcx)}
           : k \in DOMAIN pi }

\* The backend after Emit(block) for block b of Blocks left the emitter in
\* state es.
AfterEmit(B, b, h, es) ==
    [B EXCEPT
        !.mem = es.mem,
        !.cursor = es.cur,
        !.patch_information = es.pi,
        !.block_descriptors = es.bd,
        !.aborted = ~es.ok,
        !.emitLog = Append(@,
            [b |-> b, ok |-> es.ok, desc |-> es.desc, from |-> B.cursor,
             marks |-> es.marks, insts |-> es.insts]),
        !.last = [op |-> "Emit", h |-> h, b |-> b],
        !.unpatchedSites = IF es.ok THEN {s \in @ : s[3] # h} ELSE @,
        !.invalidated = IF es.ok THEN {v \in @ : v[1] # h} ELSE @]

DoEmit(B, b) ==
    AfterEmit(B, b, UniqueHash(Blocks[b].location),
              EmitBlock(EmitterState(B), Blocks[b]))

\* The backend after Patch(desc, nullptr) left the emitter in state es.
AfterUnpatch(B, h, es) ==
    [B EXCEPT
        !.mem = es.mem,
        !.cursor = es.cur,
        !.patch_information = es.pi,
        !.aborted = ~es.ok,
        !.last = [op |-> "Unpatch", h |-> h, b |-> 0],
        !.unpatchedSites = @ \cup {s \in SitesOf(B.patch_information) : s[3] = h},
        !.invalidated = @ \cup
            (IF h \in DOMAIN B.block_descriptors
             THEN {<<h, B.block_descriptors[h].code_ptr>>} ELSE {})]

\* Unpatch that rewrites nothing
DoUnpatchNoRewrite(B, h) == AfterUnpatch(B, h, EmitterState(B))

\* Unpatch(desc) for the location with hash h
DoUnpatch(B, h) == AfterUnpatch(B, h, Patch(EmitterState(B), h, NullPtr))

\* ClearCache that keeps the patch information
DoClearCacheKeepsPatchInfo(B) ==
    [B EXCEPT
        !.block_descriptors = EmptyMap,
        !.last = [op |-> "ClearCache", h |-> <<0, 0>>, b |-> 0],
        !.clearedSites = @ \cup SitesOf(B.patch_information)]

\* EmitX64::ClearCache
DoClearCache(B) ==
    [B EXCEPT
        !.block_descriptors = EmptyMap,
        !.patch_information = EmptyMap,
        !.last = [op |-> "ClearCache", h |-> <<0, 0>>, b |-> 0],
        !.clearedSites = @ \cup SitesOf(B.patch_information)]

(***************************************************************************)
(* The state after construction, and the calls on the backend.             *)
(***************************************************************************)
JitState0 ==
    [Reg |-> [R0 |-> 0, PC |-> 0],
     Cpsr |-> {},
     FPSCR_mode |-> 0,
     cycles_remaining |-> 0,
     halt_requested |-> 0,
     rsb_ptr |-> 0,
     rsb_location_descriptors |-> [i \in 0..(RSBSize - 1) |-> <<-1, -1>>],
     rsb_codeptrs |-> [i \in 0..(RSBSize - 1) |-> 0]]

NoRun == [from |-> 0, g |-> JitState0]

Init ==
    /\ BackendIs(Backend0)
    /\ nOps = 0
    /\ pc = Dispatch
    /\ jit_state = JitState0
    /\ ran = NoRun
    /\ condIn = <<AL, {}>>
    /\ condOut = "none"
    /\ OpIdle

Emit(b) ==
    /\ ~aborted
    /\ pc = Dispatch
    /\ nOps < MaxOps
    /\ SetBackend(DoEmit(Backend, b))
    /\ nOps' = nOps + 1
    /\ UNCHANGED <<pc, jit_state, ran, condIn, condOut, opVars>>

Unpatch(h) ==
    /\ ~aborted
    /\ pc = Dispatch
    /\ nOps < MaxOps
    /\ SetBackend(DoUnpatch(Backend, h))
    /\ nOps' = nOps + 1
    /\ UNCHANGED <<pc, jit_state, ran, condIn, condOut, opVars>>

ClearCache ==
    /\ ~aborted
    /\ pc = Dispatch
    /\ nOps < MaxOps
    /\ SetBackend(DoClearCache(Backend))
    /\ nOps' = nOps + 1
    /\ UNCHANGED <<pc, jit_state, ran, condIn, condOut, opVars>>

EmitAny == \E b \in 1..Len(Blocks) : Emit(b)
UnpatchAny == \E h \in Hashes : Unpatch(h)

Next ==
    \/ EmitAny
    \/ UnpatchAny
    \/ ClearCache

Spec == Init /\ [][Next]_vars

(***************************************************************************)
(* Running emitted code.  The cache is built by one of the programs below  *)
(* (calls on the backend, in order); the dispatcher then enters compiled   *)
(* blocks, emitted code runs block by block, and a halt may be requested   *)
(* while it runs.                                                          *)
(***************************************************************************)
OpEmit(b) == [op |-> "Emit", b |-> b, h |-> <<0, 0>>]
OpUnpatch(loc) == [op |-> "Unpatch", b |-> 0, h |-> UniqueHash(loc)]
OpClearCache == [op |-> "ClearCache", b |-> 0, h |-> <<0, 0>>]

Programs ==
    { << OpEmit(1), OpEmit(2), OpEmit(4) >>,
      << OpEmit(2), OpEmit(1), OpEmit(3) >>,
      << OpEmit(1), OpEmit(2), OpUnpatch(LocB), OpEmit(3) >>,
      << OpEmit(4), OpEmit(2), OpClearCache, OpEmit(1) >>,
      << OpEmit(2), OpEmit(8) >>,
      << OpEmit(4), OpEmit(9) >> }

RECURSIVE ApplyOps(_, _, _)
ApplyOps(B, p, i) ==
    IF i > Len(p) THEN B
    ELSE ApplyOps(CASE p[i].op = "Emit" -> DoEmit(B, p[i].b)
                    [] p[i].op = "Unpatch" -> DoUnpatch(B, p[i].h)
                    [] OTHER -> DoClearCache(B),
                  p, i + 1)

InitRun ==
    /\ \E p \in Programs :
          /\ BackendIs(ApplyOps(Backend0, p, 1))
          /\ nOps = Len(p)
    /\ pc = Dispatch
    /\ jit_state = JitState0
    /\ ran = NoRun
    /\ condIn = <<AL, {}>>
    /\ condOut = "none"
    /\ OpIdle

backendVars == <<mem, cursor, block_descriptors, patch_information, aborted,
                 emitLog, last, unpatchedSites, invalidated, clearedSites, nOps>>

\* The dispatcher enters the block compiled for location l with a cycle
\* budget, the guest flags in `flags` and no halt pending.
RunCode(l, cycles, flags) ==
    /\ ~aborted
    /\ pc = Dispatch
    /\ HasBasicBlock(block_descriptors, l)
    /\ jit_state' = [jit_state EXCEPT !.Reg["PC"] = l.pc,
                                      !.Cpsr = LocCpsr(l) \cup flags,
                                      !.FPSCR_mode = l.fpscr,
                                      !.cycles_remaining = cycles,
                                      !.halt_requested = 0]
    /\ pc' = GetBasicBlock(block_descriptors, l).code_ptr
    /\ UNCHANGED <<backendVars, ran, condIn, condOut, opVars>>

\* Emitted code runs from the entry pc until it leaves the block.
ExecBlock ==
    /\ pc # Dispatch
    /\ pc # Trap
    /\ pc' = Exec(mem, pc, jit_state, Host0).pc
    /\ jit_state' = Exec(mem, pc, jit_state, Host0).g
    /\ ran' = [from |-> pc, g |-> jit_state]
    /\ UNCHANGED <<backendVars, condIn, condOut, opVars>>

\* Jit::HaltExecution, called while emitted code runs
HaltExecution ==
    /\ pc # Dispatch
    /\ pc # Trap
    /\ jit_state.halt_requested = 0
    /\ jit_state' = [jit_state EXCEPT !.halt_requested = 1]
    /\ UNCHANGED <<backendVars, pc, ran, condIn, condOut, opVars>>

RunCodeAny ==
    \E i \in 1..Len(Locs), cycles \in 1..MaxCycles, flags \in SUBSET {ZBit, CBit} :
        RunCode(Locs[i], cycles, flags)

NextRun ==
    \/ RunCodeAny
    \/ ExecBlock
    \/ HaltExecution

SpecRun == InitRun /\ [][NextRun]_vars

(***************************************************************************)
(* The condition evaluator on its own: the code of If(cond, then, else) is *)
(* emitted into a fresh buffer and run on a CPSR value; then_ and else_    *)
(* leave different guest PCs.                                              *)
(***************************************************************************)
CpsrValues == SUBSET {NBit, ZBit, CBit, VBit, TBit}

InitCond ==
    /\ BackendIs(Backend0)
    /\ nOps = 0
    /\ pc = Dispatch
    /\ jit_state = JitState0
    /\ ran = NoRun
    /\ condIn \in (EQ..NV) \X CpsrValues
    /\ condOut = "none"
    /\ OpIdle

\* The outcome of running the code the emitter left in es on guest state g.
CondOutcome(es, r) ==
    IF ~es.ok THEN "assert"
    ELSE IF r.pc # Dispatch THEN "trap"
    ELSE IF r.g.Reg["PC"] = LocC.pc THEN "pass"
    ELSE "fail"

RunFrom(es, a, g) ==
    IF es.ok THEN Exec(es.mem, a, g, Host0) ELSE [pc |-> Trap, g |-> g]

EvalCondResult(es, r) ==
    /\ mem' = es.mem
    /\ cursor' = es.cur
    /\ aborted' = ~es.ok
    /\ jit_state' = r.g
    /\ condOut' = CondOutcome(es, r)

EvalCondEmitted(es) ==
    EvalCondResult(es, RunFrom(es, cursor, [jit_state EXCEPT !.Cpsr = condIn[2]]))

EvalCond ==
    /\ condOut = "none"
    /\ EvalCondEmitted(EmitTerminal(EmitterState(Backend),
                           If(condIn[1], Interpret(LocC), Interpret(LocA)), LocA))
    /\ UNCHANGED <<block_descriptors, patch_information, pc, emitLog, last,
                   unpatchedSites, invalidated, clearedSites, nOps, ran, condIn,
                   opVars>>

NextCond == EvalCond

SpecCond == InitCond /\ [][NextCond]_vars

(***************************************************************************)
(* 32-bit words and the host instructions of the emit rules that compute.  *)
(* A word is the set of positions of its 1 bits (0..31).  A host state is  *)
(* [r, cf, zf, sf, of, g, x, trace]: the registers (named as the emit rule *)
(* names them), the flags, the guest state fields, the XMM registers (16   *)
(* bytes each, byte 1 the least significant) and the calls made so far.    *)
(***************************************************************************)
WordBits == 0..31

\* The word with high half hi and low half lo (each 0..65535)
W(hi, lo) == Bits(lo, 0) \cup Bits(hi, 16)

\* The low `w` bits of a word, as a number (w <= 16)
Low(v, w) == BitsToInt({b \in v : b < w})
Hi16(v) == BitsToInt(ShrBits(v, 16))

\* Operands: a register or an immediate
R(name) == <<"r", name>>
I(v) == <<"i", v>>
Val(st, x) == IF x[1] = "r" THEN st.r[x[2]] ELSE x[2]

\* Carry into bit i of a + b + cin (i in 0..32)
RECURSIVE CarryInto(_, _, _, _)
CarryInto(a, b, cin, i) ==
    IF i = 0 THEN cin
    ELSE IF (i - 1) \in a /\ (i - 1) \in b THEN TRUE
    ELSE IF (i - 1) \in a \/ (i - 1) \in b THEN CarryInto(a, b, cin, i - 1)
    ELSE FALSE

\* a + b + cin on w bits
SumBits(a, b, cin, w) ==
    {i \in 0..(w - 1) : ((i \in a) # (i \in b)) # CarryInto(a, b, cin, i)}

NotBits(a, w) == (0..(w - 1)) \ a

\* Flags after a logical or arithmetic result v of width w
ResultFlags(st, v, w, cf, of) ==
    [st EXCEPT !.cf = cf, !.of = of, !.zf = (v = {}), !.sf = ((w - 1) \in v)]

SetReg(st, x, v) == [st EXCEPT !.r[x[2]] = v]

\* ADD/ADC dst, src
HostAdd(st, dst, src, cin) ==
    ResultFlags(SetReg(st, dst, SumBits(Val(st, dst), Val(st, src), cin, 32)),
                SumBits(Val(st, dst), Val(st, src), cin, 32), 32,
                CarryInto(Val(st, dst), Val(st, src), cin, 32),
                CarryInto(Val(st, dst), Val(st, src), cin, 32)
                    # CarryInto(Val(st, dst), Val(st, src), cin, 31))

\* The flags of a - b - bin on w bits: computed as a + ~b + ~bin, CF is the borrow
SubFlags(st, a, b, bin, w) ==
    ResultFlags(st, SumBits(a, NotBits(b, w), ~bin, w), w,
                ~CarryInto(a, NotBits(b, w), ~bin, w),
                CarryInto(a, NotBits(b, w), ~bin, w)
                    # CarryInto(a, NotBits(b, w), ~bin, w - 1))

\* SUB/SBB dst, src
HostSub(st, dst, src, bin) ==
    SubFlags(SetReg(st, dst, SumBits(Val(st, dst), NotBits(Val(st, src), 32), ~bin, 32)),
             Val(st, dst), Val(st, src), bin, 32)

\* CMP a, b on w bits (w = 8 for the byte registers)
HostCmp(st, a, b, w) ==
    SubFlags(st, {i \in Val(st, a) : i < w}, {i \in Val(st, b) : i < w}, FALSE, w)

\* The count of a shift or rotate: an imm8 or CL, masked to 5 bits
ShiftCount(st, x) == Low(Val(st, x), 5)

ShlBits(v, n) == {b + n : b \in {x \in v : x + n <= 31}}
SarBits(v, n) == ShrBits(v, n) \cup (IF 31 \in v THEN (32 - n)..31 ELSE {})
RorBits(v, n) == {(b + 32 - n) % 32 : b \in v}

\* SHL/SHR/SAR/ROR dst, count: a masked count of 0 changes nothing, else CF
\* is the last bit shifted out (for ROR, the top bit of the result).
HostShift(st, op, dst, n) ==
    IF n = 0 THEN st
    ELSE CASE op = "shl" -> ResultFlags(SetReg(st, dst, ShlBits(Val(st, dst), n)),
                                ShlBits(Val(st, dst), n), 32,
                                (32 - n) \in Val(st, dst), st.of)
           [] op = "shr" -> ResultFlags(SetReg(st, dst, ShrBits(Val(st, dst), n)),
                                ShrBits(Val(st, dst), n), 32,
                                (n - 1) \in Val(st, dst), st.of)
           [] op = "sar" -> ResultFlags(SetReg(st, dst, SarBits(Val(st, dst), n)),
                                SarBits(Val(st, dst), n), 32,
                                (n - 1) \in Val(st, dst), st.of)
           [] OTHER -> [SetReg(st, dst, RorBits(Val(st, dst), n))
                           EXCEPT !.cf = (31 \in RorBits(Val(st, dst), n))]

\* AND/OR/XOR/TEST: CF and OF are cleared
HostLogic(st, dst, v, store) ==
    ResultFlags(IF store THEN SetReg(st, dst, v) ELSE st, v, 32, FALSE, FALSE)

\* SETcc r8: the low byte becomes 0 or 1, the rest of the register stays
HostSetcc(st, dst, cond) ==
    SetReg(st, dst, {b \in Val(st, dst) : b >= 8} \cup (IF cond THEN {0} ELSE {}))

\* The condition of a Jcc / CMOVcc / SETcc
HostCond(st, cc) ==
    CASE cc = "c" -> st.cf
      [] cc = "nc" -> ~st.cf
      [] cc = "nb" -> ~st.cf
      [] cc = "o" -> st.of
      [] cc = "a" -> ~st.cf /\ ~st.zf
      [] cc = "be" -> st.cf \/ st.zf
      [] cc = "e" -> st.zf
      [] cc = "z" -> st.zf
      [] cc = "ne" -> ~st.zf
      [] cc = "g" -> ~st.zf /\ (st.sf = st.of)
      [] OTHER -> TRUE

\* The position of local label `name` in `code`
LabelAt(code, name) ==
    CHOOSE j \in 1..Len(code) : code[j][1] = "L" /\ code[j][2] = name

\* XMM values are 16 bytes, byte 1 the least significant.
WordByte(v, k) == BitsToInt(ShrBits({b \in v : b < 8 * k + 8}, 8 * k))
WordOfBytes(s) == Bits(s[1], 0) \cup Bits(s[2], 8) \cup Bits(s[3], 16) \cup Bits(s[4], 24)
\* MOVD xmm, r32 and MOVQ xmm, r64: the upper bytes are zeroed
XmmOfWord(v) == [k \in 1..16 |-> IF k <= 4 THEN WordByte(v, k - 1) ELSE 0]
XmmOfQword(q) == [k \in 1..16 |-> IF k <= 8 THEN q[k] ELSE 0]
\* PSHUFB dst, mask
Pshufb(d, m) == [k \in 1..16 |-> IF m[k] >= 128 THEN 0 ELSE d[(m[k] % 16) + 1]]
\* PADDW dst, src: eight 16-bit lanes, each modulo 2^16
Paddw(d, s) ==
    [k \in 1..16 |->
        IF k % 2 = 1 THEN (d[k] + s[k]) % 256
        ELSE (d[k] + s[k] + ((d[k - 1] + s[k - 1]) \div 256)) % 256]
\* PSRLW dst, 1
Psrlw1(d) ==
    [k \in 1..16 |->
        IF k % 2 = 1 THEN (d[k] \div 2) + 128 * (d[k + 1] % 2)
        ELSE d[k] \div 2]

SetXmm(st, name, v) == [st EXCEPT !.x[name] = v]
SetGuest(st, field, v) == [st EXCEPT !.g[field] = v]
\* A call: the callee, the state of MXCSR and the two parameter registers
Called(st, what) == [st EXCEPT !.trace = Append(@, <<what, st.mxcsr, st.r.ABI_PARAM1, st.r.ABI_PARAM2>>)]

\* One host instruction that is not a jump.
Step86(st, c) ==
    CASE c[1] = "mov" -> SetReg(st, c[2], Val(st, c[3]))
      [] c[1] = "movzx8" -> SetReg(st, c[2], {b \in Val(st, c[3]) : b < 8})
      [] c[1] = "lea" -> SetReg(st, c[2], SumBits(Val(st, c[3]), Val(st, c[4]), FALSE, 32))
      [] c[1] = "and" -> HostLogic(st, c[2], Val(st, c[2]) \cap Val(st, c[3]), TRUE)
      [] c[1] = "or" -> HostLogic(st, c[2], Val(st, c[2]) \cup Val(st, c[3]), TRUE)
      [] c[1] = "xor" -> HostLogic(st, c[2], SymDiff(Val(st, c[2]), Val(st, c[3])), TRUE)
      [] c[1] = "test" -> HostLogic(st, c[2], Val(st, c[2]) \cap Val(st, c[3]), FALSE)
      [] c[1] = "test8" -> HostLogic(st, c[2], {b \in Val(st, c[2]) \cap Val(st, c[3]) : b < 8}, FALSE)
      [] c[1] = "cmp" -> HostCmp(st, c[2], c[3], 32)
      [] c[1] = "cmp8" -> HostCmp(st, c[2], c[3], 8)
      [] c[1] \in {"shl", "shr", "sar", "ror"} ->
            HostShift(st, c[1], c[2], ShiftCount(st, c[3]))
      [] c[1] = "bt" -> [st EXCEPT !.cf = (c[3] \in Val(st, c[2]))]
      [] c[1] = "stc" -> [st EXCEPT !.cf = TRUE]
      [] c[1] = "cmc" -> [st EXCEPT !.cf = ~st.cf]
      [] c[1] = "set" -> HostSetcc(st, c[2], HostCond(st, c[3]))
      [] c[1] = "cmov" -> IF HostCond(st, c[4]) THEN SetReg(st, c[2], Val(st, c[3])) ELSE st
      [] c[1] = "add" -> HostAdd(st, c[2], c[3], FALSE)
      [] c[1] = "adc" -> HostAdd(st, c[2], c[3], st.cf)
      [] c[1] = "sub" -> HostSub(st, c[2], c[3], FALSE)
      [] c[1] = "sbb" -> HostSub(st, c[2], c[3], st.cf)
      [] c[1] = "lea64" -> SetReg(st, c[2], SumBits(Val(st, c[3]), Val(st, c[4]), FALSE, 64))
      [] c[1] = "mov_from64" -> SetReg(st, c[2], st.g[c[3]] \cup {b + 32 : b \in st.g[c[4]]})
      [] c[1] = "mov_to64" ->
            SetGuest(SetGuest(st, c[2], {b \in Val(st, c[4]) : b < 32}),
                     c[3], {b - 32 : b \in {x \in Val(st, c[4]) : x >= 32}})
      [] c[1] = "mov32" -> SetReg(st, c[2], {b \in Val(st, c[3]) : b < 32})
      [] c[1] = "shl64" -> SetReg(st, c[2], {b + c[3] : b \in {x \in Val(st, c[2]) : x + c[3] <= 63}})
      [] c[1] = "mov8_m" -> SetGuest(st, c[2], {b \in Val(st, c[3]) : b < 8})
      [] c[1] = "cmp8_m" -> SubFlags(st, {b \in st.g[c[2]] : b < 8}, {b \in Val(st, c[3]) : b < 8}, FALSE, 8)
      [] c[1] = "xor_from" -> HostLogic(st, c[2], {b \in SymDiff(Val(st, c[2]), st.g[c[3]]) : b < 32}, TRUE)
      [] c[1] = "mov_to" -> SetGuest(st, c[2], {b \in Val(st, c[3]) : b < 32})
      [] c[1] = "mov_from" -> SetReg(st, c[2], st.g[c[3]])
      [] c[1] = "or_m" -> SetGuest(st, c[2], st.g[c[2]] \cup Val(st, c[3]))
      [] c[1] = "and_m" -> SetGuest(st, c[2], st.g[c[2]] \cap Val(st, c[3]))
      [] c[1] = "movd_x" -> SetXmm(st, c[2], XmmOfWord(Val(st, c[3])))
      [] c[1] = "movq_x" -> SetXmm(st, c[2], XmmOfQword(Val(st, c[3])))
      [] c[1] = "pshufb" -> SetXmm(st, c[2], Pshufb(st.x[c[2]], st.x[c[3]]))
      [] c[1] = "paddw" -> SetXmm(st, c[2], Paddw(st.x[c[2]], st.x[c[3]]))
      [] c[1] = "psrlw1" -> SetXmm(st, c[2], Psrlw1(st.x[c[2]]))
      [] c[1] = "movd_r" -> SetReg(st, c[2], WordOfBytes(st.x[c[3]]))
      [] c[1] = "SwitchMxcsrOnExit" -> [st EXCEPT !.mxcsr = "host"]
      [] c[1] = "SwitchMxcsrOnEntry" -> [st EXCEPT !.mxcsr = "guest"]
      [] c[1] = "CallFunction" -> Called(st, c[2])
      [] c[1] = "call" -> Called(st, c[2])
      [] c[1] = "ReturnFromRunCode" -> Called([st EXCEPT !.mxcsr = IF c[2] THEN "host" ELSE @], "ReturnFromRunCode")
      [] c[1] = "mov_page" -> SetReg(st, c[2], IF Val(st, c[3]) \in st.g.page_table THEN {24} ELSE {})
      [] OTHER -> st

\* Runs code from instruction i to its end; jumps go to local labels.
RECURSIVE Run86(_, _, _)
Run86(code, i, st) ==
    IF i > Len(code) THEN st
    ELSE IF code[i][1] = "j"
    THEN Run86(code, IF HostCond(st, code[i][2]) THEN LabelAt(code, code[i][3]) ELSE i + 1, st)
    ELSE Run86(code, i + 1, Step86(st, code[i]))

HostRegs == {"result", "carry", "overflow", "shift", "zero", "const31", "tmp",
             "op_arg", "reg_a", "reg_b", "arg", "mask", "xor_a_b", "new_pc",
             "tmp1", "tmp2", "passed", "address", "value_hi",
             "ABI_PARAM1", "ABI_PARAM2", "ABI_PARAM3", "ABI_RETURN",
             "page_index", "page_offset", "reg_word", "reg_destination_addr", "to_store"}
XmmRegs == {"xmm_scratch_a", "xmm_scratch_b", "xmm_mask"}

\* The host state on entry to the code of one emit rule: every flag is f0,
\* registers hold `regs` (others 0), the guest fields are g.
HostState(regs, g, f0) ==
    [r |-> [n \in HostRegs |-> IF n \in DOMAIN regs THEN regs[n] ELSE {}],
     cf |-> f0, zf |-> f0, sf |-> f0, of |-> f0,
     g |-> g,
     x |-> [n \in XmmRegs |-> [k \in 1..16 |-> 0]],
     mxcsr |-> "guest",
     trace |-> <<>>]

(***************************************************************************)
(* The shift emit rules.  inst is [op, carry_inst, shift_imm, shift]:      *)
(* carry_inst says whether a GetCarryFromOp is attached, shift_imm whether *)
(* the shift amount is an immediate (then shift is its value).  The code   *)
(* works on the registers result (the value), shift (CL) and carry.        *)
(***************************************************************************)
Imm8(n) == I(Bits(n, 0))

\* The rule with the carry of the shifted-out bit taken unconditionally
EmitLogicalShiftLeftNoEq32(inst) ==
    << <<"bt", R("carry"), 0>>,
       <<"shl", R("result"), IF inst.shift_imm THEN Imm8(inst.shift) ELSE R("shift")>>,
       <<"set", R("carry"), "c">> >>

EmitLogicalShiftLeft(inst) ==
    IF ~inst.carry_inst
    THEN IF inst.shift_imm
         THEN IF inst.shift <= 31
              THEN << <<"shl", R("result"), Imm8(inst.shift)>> >>
              ELSE << <<"xor", R("result"), R("result")>> >>
         ELSE << <<"shl", R("result"), R("shift")>>,
                 <<"xor", R("zero"), R("zero")>>,
                 <<"cmp8", R("shift"), Imm8(32)>>,
                 <<"cmov", R("result"), R("zero"), "nb">> >>
    ELSE IF inst.shift_imm
         THEN IF inst.shift = 0 THEN <<>>
              ELSE IF inst.shift < 32
              THEN << <<"bt", R("carry"), 0>>,
                      <<"shl", R("result"), Imm8(inst.shift)>>,
                      <<"set", R("carry"), "c">> >>
              ELSE IF inst.shift > 32
              THEN << <<"xor", R("result"), R("result")>>,
                      <<"xor", R("carry"), R("carry")>> >>
              ELSE << <<"mov", R("carry"), R("result")>>,
                      <<"xor", R("result"), R("result")>>,
                      <<"and", R("carry"), Imm8(1)>> >>
         ELSE << <<"cmp8", R("shift"), Imm8(32)>>,
                 <<"j", "a", ".Rs_gt32">>,
                 <<"j", "e", ".Rs_eq32">>,
                 <<"bt", R("carry"), 0>>,
                 <<"shl", R("result"), R("shift")>>,
                 <<"set", R("carry"), "c">>,
                 <<"j", "mp", ".end">>,
                 <<"L", ".Rs_gt32">>,
                 <<"xor", R("result"), R("result")>>,
                 <<"xor", R("carry"), R("carry")>>,
                 <<"j", "mp", ".end">>,
                 <<"L", ".Rs_eq32">>,
                 <<"mov", R("carry"), R("result")>>,
                 <<"and", R("carry"), Imm8(1)>>,
                 <<"xor", R("result"), R("result")>>,
                 <<"L", ".end">> >>

EmitLogicalShiftRight(inst) ==
    IF ~inst.carry_inst
    THEN IF inst.shift_imm
         THEN IF inst.shift <= 31
              THEN << <<"shr", R("result"), Imm8(inst.shift)>> >>
              ELSE << <<"xor", R("result"), R("result")>> >>
         ELSE << <<"shr", R("result"), R("shift")>>,
                 <<"xor", R("zero"), R("zero")>>,
                 <<"cmp8", R("shift"), Imm8(32)>>,
                 <<"cmov", R("result"), R("zero"), "nb">> >>
    ELSE IF inst.shift_imm
         THEN IF inst.shift = 0 THEN <<>>
              ELSE IF inst.shift < 32
              THEN << <<"shr", R("result"), Imm8(inst.shift)>>,
                      <<"set", R("carry"), "c">> >>
              ELSE IF inst.shift = 32
              THEN << <<"bt", R("result"), 31>>,
                      <<"set", R("carry"), "c">>,
                      <<"mov", R("result"), Imm8(0)>> >>
              ELSE << <<"xor", R("result"), R("result")>>,
                      <<"xor", R("carry"), R("carry")>> >>
         ELSE << <<"cmp8", R("shift"), Imm8(32)>>,
                 <<"j", "a", ".Rs_gt32">>,
                 <<"j", "e", ".Rs_eq32">>,
                 <<"test8", R("shift"), R("shift")>>,
                 <<"j", "z", ".end">>,
                 <<"shr", R("result"), R("shift")>>,
                 <<"set", R("carry"), "c">>,
                 <<"j", "mp", ".end">>,
                 <<"L", ".Rs_gt32">>,
                 <<"xor", R("result"), R("result")>>,
                 <<"xor", R("carry"), R("carry")>>,
                 <<"j", "mp", ".end">>,
                 <<"L", ".Rs_eq32">>,
                 <<"bt", R("result"), 31>>,
                 <<"set", R("carry"), "c">>,
                 <<"xor", R("result"), R("result")>>,
                 <<"L", ".end">> >>

EmitArithmeticShiftRight(inst) ==
    IF ~inst.carry_inst
    THEN IF inst.shift_imm
         THEN << <<"sar", R("result"), Imm8(IF inst.shift < 31 THEN inst.shift ELSE 31)>> >>
         ELSE << <<"mov", R("const31"), Imm8(31)>>,
                 <<"movzx8", R("shift"), R("shift")>>,
                 <<"cmp", R("shift"), Imm8(31)>>,
                 <<"cmov", R("shift"), R("const31"), "g">>,
                 <<"sar", R("result"), R("shift")>> >>
    ELSE IF inst.shift_imm
         THEN IF inst.shift = 0 THEN <<>>
              ELSE IF inst.shift <= 31
              THEN << <<"sar", R("result"), Imm8(inst.shift)>>,
                      <<"set", R("carry"), "c">> >>
              ELSE << <<"sar", R("result"), Imm8(31)>>,
                      <<"bt", R("result"), 31>>,
                      <<"set", R("carry"), "c">> >>
         ELSE << <<"cmp8", R("shift"), Imm8(31)>>,
                 <<"j", "a", ".Rs_gt31">>,
                 <<"test8", R("shift"), R("shift")>>,
                 <<"j", "z", ".end">>,
                 <<"sar", R("result"), R("shift")>>,
                 <<"set", R("carry"), "c">>,
                 <<"j", "mp", ".end">>,
                 <<"L", ".Rs_gt31">>,
                 <<"sar", R("result"), Imm8(31)>>,
                 <<"bt", R("result"), 31>>,
                 <<"set", R("carry"), "c">>,
                 <<"L", ".end">> >>

EmitRotateRight(inst) ==
    IF ~inst.carry_inst
    THEN IF inst.shift_imm
         THEN << <<"ror", R("result"), Imm8(inst.shift % 32)>> >>
         ELSE << <<"ror", R("result"), R("shift")>> >>
    ELSE IF inst.shift_imm
         THEN IF inst.shift = 0 THEN <<>>
              ELSE IF inst.shift % 32 = 0
              THEN << <<"bt", R("result"), 31>>,
                      <<"set", R("carry"), "c">> >>
              ELSE << <<"ror", R("result"), Imm8(inst.shift)>>,
                      <<"set", R("carry"), "c">> >>
         ELSE << <<"test8", R("shift"), R("shift")>>,
                 <<"j", "z", ".end">>,
                 <<"and", R("shift"), Imm8(31)>>,
                 <<"j", "z", ".zero_1F">>,
                 <<"ror", R("result"), R("shift")>>,
                 <<"set", R("carry"), "c">>,
                 <<"j", "mp", ".end">>,
                 <<"L", ".zero_1F">>,
                 <<"bt", R("result"), 31>>,
                 <<"set", R("carry"), "c">>,
                 <<"L", ".end">> >>

(***************************************************************************)
(* The rules of AddWithCarry and SubWithCarry.  inst is [b_imm, b,         *)
(* carry_imm, carry_in, carry_inst, overflow_inst]: b_imm and carry_imm    *)
(* say which arguments are immediates (b a word, carry_in 0 or 1); a       *)
(* register b is in op_arg, a register carry-in in carry (DoCarry).  The   *)
(* code for an immediate b and for a register b differs in the operand     *)
(* only.                                                                   *)
(***************************************************************************)
ArithArg(inst) == IF inst.b_imm THEN I(inst.b) ELSE R("op_arg")

ArithFlags(inst, carry_cc) ==
    (IF inst.carry_inst THEN << <<"set", R("carry"), carry_cc>> >> ELSE <<>>)
    \o (IF inst.overflow_inst THEN << <<"set", R("overflow"), "o">> >> ELSE <<>>)

\* The rule with the carry flag left as it is for an immediate carry-in of 1
EmitAddWithCarryCodeNoStc(inst) ==
    (IF inst.carry_imm
     THEN IF inst.carry_in = 1
          THEN << <<"adc", R("result"), ArithArg(inst)>> >>
          ELSE << <<"add", R("result"), ArithArg(inst)>> >>
     ELSE << <<"bt", R("carry"), 0>>,
             <<"adc", R("result"), ArithArg(inst)>> >>)
    \o ArithFlags(inst, "c")

EmitAddWithCarryCode(inst) ==
    (IF inst.carry_imm
     THEN IF inst.carry_in = 1
          THEN << <<"stc">>,
                  <<"adc", R("result"), ArithArg(inst)>> >>
          ELSE << <<"add", R("result"), ArithArg(inst)>> >>
     ELSE << <<"bt", R("carry"), 0>>,
             <<"adc", R("result"), ArithArg(inst)>> >>)
    \o ArithFlags(inst, "c")

\* The rule with the carry taken as the host's borrow
EmitSubWithCarryCodeSetc(inst) ==
    (IF inst.carry_imm
     THEN IF inst.carry_in = 1
          THEN << <<"sub", R("result"), ArithArg(inst)>> >>
          ELSE << <<"stc">>,
                  <<"sbb", R("result"), ArithArg(inst)>> >>
     ELSE << <<"bt", R("carry"), 0>>,
             <<"cmc">>,
             <<"sbb", R("result"), ArithArg(inst)>> >>)
    \o ArithFlags(inst, "c")

\* The rule with the two immediate carry-in forms exchanged
EmitSubWithCarryCodeSubForZero(inst) ==
    (IF inst.carry_imm
     THEN IF inst.carry_in = 0
          THEN << <<"sub", R("result"), ArithArg(inst)>> >>
          ELSE << <<"stc">>,
                  <<"cmc">>,
                  <<"sbb", R("result"), ArithArg(inst)>> >>
     ELSE << <<"bt", R("carry"), 0>>,
             <<"cmc">>,
             <<"sbb", R("result"), ArithArg(inst)>> >>)
    \o ArithFlags(inst, "nc")

EmitSubWithCarryCode(inst) ==
    (IF inst.carry_imm
     THEN IF inst.carry_in = 1
          THEN << <<"sub", R("result"), ArithArg(inst)>> >>
          ELSE << <<"stc">>,
                  <<"sbb", R("result"), ArithArg(inst)>> >>
     ELSE << <<"bt", R("carry"), 0>>,
             <<"cmc">>,
             <<"sbb", R("result"), ArithArg(inst)>> >>)
    \o ArithFlags(inst, "nc")

(***************************************************************************)
(* The rule of SignedSaturation.  inst is [N, overflow_inst].  For N = 32  *)
(* no code is emitted: the instruction is bound to the register of a and   *)
(* the uses of the pseudo-operation are replaced by the constant false.    *)
(* For smaller N the code works on reg_a, result, overflow and tmp.        *)
(***************************************************************************)
\* u32 mask = (1u << N) - 1
SatMask(N) == I(0..(N - 1))
\* u32 positive_saturated_value = (1u << (N - 1)) - 1
SatPositive(N) == I(0..(N - 2))
\* u32 negative_saturated_value = 1u << (N - 1)
SatNegative(N) == I({N - 1})
\* Common::SignExtend(N, negative_saturated_value)
SatSextNegative(N) == I((N - 1)..31)

\* The rule with the negative bound not sign-extended
EmitSignedSaturationNoSext(inst) ==
    IF inst.N = 32 THEN <<>>
    ELSE << <<"lea", R("overflow"), R("reg_a"), SatNegative(inst.N)>>,
            <<"cmp", R("reg_a"), SatPositive(inst.N)>>,
            <<"mov", R("tmp"), SatPositive(inst.N)>>,
            <<"mov", R("result"), SatNegative(inst.N)>>,
            <<"cmov", R("result"), R("tmp"), "g">>,
            <<"cmp", R("overflow"), SatMask(inst.N)>>,
            <<"cmov", R("result"), R("reg_a"), "be">> >>
         \o (IF inst.overflow_inst THEN << <<"set", R("overflow"), "a">> >> ELSE <<>>)

EmitSignedSaturation(inst) ==
    IF inst.N = 32 THEN <<>>
    ELSE << <<"lea", R("overflow"), R("reg_a"), SatNegative(inst.N)>>,
            <<"cmp", R("reg_a"), SatPositive(inst.N)>>,
            <<"mov", R("tmp"), SatPositive(inst.N)>>,
            <<"mov", R("result"), SatSextNegative(inst.N)>>,
            <<"cmov", R("result"), R("tmp"), "g">>,
            <<"cmp", R("overflow"), SatMask(inst.N)>>,
            <<"cmov", R("result"), R("reg_a"), "be">> >>
         \o (IF inst.overflow_inst THEN << <<"set", R("overflow"), "a">> >> ELSE <<>>)

(***************************************************************************)
(* The packed halving adds.  inst is [ssse3]: whether cpu_info reports     *)
(* SSSE3 (consulted by PackedHalvingAddU8 only).  The operands are in      *)
(* result/arg on the SSSE3 path and in reg_a/reg_b on the GPR paths, where *)
(* and_a_b and result are reg_a.  64-bit immediates are sequences of 8     *)
(* bytes, the least significant first.                                     *)
(***************************************************************************)
\* 0x8003800280018000 and 0x06040200
ExpandMask == <<0, 128, 1, 128, 2, 128, 3, 128>>
PackMask == <<0, 2, 4, 6, 0, 0, 0, 0>>

\* The SSSE3 path with the halving shift left out
EmitPackedHalvingAddU8NoShift(inst) ==
    IF inst.ssse3
    THEN << <<"movd_x", "xmm_scratch_a", R("result")>>,
            <<"movd_x", "xmm_scratch_b", R("arg")>>,
            <<"mov", R("mask"), I(ExpandMask)>>,
            <<"movq_x", "xmm_mask", R("mask")>>,
            <<"pshufb", "xmm_scratch_a", "xmm_mask">>,
            <<"pshufb", "xmm_scratch_b", "xmm_mask">>,
            <<"paddw", "xmm_scratch_a", "xmm_scratch_b">>,
            <<"mov", R("mask"), I(PackMask)>>,
            <<"movq_x", "xmm_mask", R("mask")>>,
            <<"pshufb", "xmm_scratch_a", "xmm_mask">>,
            <<"movd_r", R("result"), "xmm_scratch_a">> >>
    ELSE << <<"mov", R("xor_a_b"), R("reg_a")>>,
            <<"and", R("reg_a"), R("reg_b")>>,
            <<"xor", R("xor_a_b"), R("reg_b")>>,
            <<"shr", R("xor_a_b"), Imm8(1)>>,
            <<"and", R("xor_a_b"), I(W(32639, 32639))>>,
            <<"add", R("reg_a"), R("xor_a_b")>> >>

EmitPackedHalvingAddU8(inst) ==
    IF inst.ssse3
    THEN << <<"movd_x", "xmm_scratch_a", R("result")>>,
            <<"movd_x", "xmm_scratch_b", R("arg")>>,
            <<"mov", R("mask"), I(ExpandMask)>>,
            <<"movq_x", "xmm_mask", R("mask")>>,
            <<"pshufb", "xmm_scratch_a", "xmm_mask">>,
            <<"pshufb", "xmm_scratch_b", "xmm_mask">>,
            <<"paddw", "xmm_scratch_a", "xmm_scratch_b">>,
            <<"psrlw1", "xmm_scratch_a">>,
            <<"mov", R("mask"), I(PackMask)>>,
            <<"movq_x", "xmm_mask", R("mask")>>,
            <<"pshufb", "xmm_scratch_a", "xmm_mask">>,
            <<"movd_r", R("result"), "xmm_scratch_a">> >>
    ELSE << <<"mov", R("xor_a_b"), R("reg_a")>>,
            <<"and", R("reg_a"), R("reg_b")>>,
            <<"xor", R("xor_a_b"), R("reg_b")>>,
            <<"shr", R("xor_a_b"), Imm8(1)>>,
            <<"and", R("xor_a_b"), I(W(32639, 32639))>>,
            <<"add", R("reg_a"), R("xor_a_b")>> >>

\* EmitPackedHalvingAddSHelper(reg_alloc, inst, code, mask): the carry is
\* taken under 0x80808080 whatever the mask.
EmitPackedHalvingAddSHelper(mask) ==
    << <<"mov", R("xor_a_b"), R("reg_a")>>,
       <<"and", R("reg_a"), R("reg_b")>>,
       <<"xor", R("xor_a_b"), R("reg_b")>>,
       <<"mov", R("carry"), R("xor_a_b")>>,
       <<"and", R("carry"), I(W(32896, 32896))>>,
       <<"shr", R("xor_a_b"), Imm8(1)>>,
       <<"and", R("xor_a_b"), I(mask)>>,
       <<"add", R("reg_a"), R("xor_a_b")>>,
       <<"xor", R("reg_a"), R("carry")>> >>

\* mask 0x7F7F7F7F
EmitPackedHalvingAddS8(inst) == EmitPackedHalvingAddSHelper(W(32639, 32639))

\* mask 0x7FFF7FFF
EmitPackedHalvingAddS16(inst) == EmitPackedHalvingAddSHelper(W(32767, 32767))

(***************************************************************************)
(* The rule of BXWritePC.  inst is [imm, new_pc]: whether the argument is  *)
(* an immediate, and then its value.  The register path works on the       *)
(* 64-bit registers new_pc, tmp1 and tmp2, so its loads and stores of the  *)
(* Cpsr and PC fields are 8 bytes wide: they take in the four bytes after  *)
(* the field, AfterCpsr and AfterPC; a 32-bit immediate of a 64-bit        *)
(* instruction is sign-extended.                                           *)
(***************************************************************************)
\* const u32 T_bit = 1 << 5
T_bit == {5}

Sext32(v) == v \cup (IF 31 \in v THEN 32..63 ELSE {})

\* The register path with the choice between the two CPSR values left out
EmitBXWritePCNoCmove(inst) ==
    IF inst.imm
    THEN IF 0 \in inst.new_pc
         THEN << <<"mov_to", "PC", I(inst.new_pc \cap (1..31))>>,
                 <<"or_m", "Cpsr", I(T_bit)>> >>
         ELSE << <<"mov_to", "PC", I(inst.new_pc \cap (2..31))>>,
                 <<"and_m", "Cpsr", I(NotBits(T_bit, 32))>> >>
    ELSE << <<"mov_from64", R("tmp1"), "Cpsr", "AfterCpsr">>,
            <<"mov", R("tmp2"), R("tmp1")>>,
            <<"and", R("tmp2"), I(Sext32(NotBits(T_bit, 32)))>>,
            <<"or", R("tmp1"), I(Sext32(T_bit))>>,
            <<"test", R("new_pc"), I(Sext32({0}))>>,
            <<"mov_to64", "Cpsr", "AfterCpsr", R("tmp1")>>,
            <<"lea64", R("tmp2"), R("new_pc"), R("new_pc")>>,
            <<"or", R("tmp2"), I(Sext32(2..31))>>,
            <<"and", R("new_pc"), R("tmp2")>>,
            <<"mov_to64", "PC", "AfterPC", R("new_pc")>> >>

EmitBXWritePC(inst) ==
    IF inst.imm
    THEN IF 0 \in inst.new_pc
         THEN << <<"mov_to", "PC", I(inst.new_pc \cap (1..31))>>,
                 <<"or_m", "Cpsr", I(T_bit)>> >>
         ELSE << <<"mov_to", "PC", I(inst.new_pc \cap (2..31))>>,
                 <<"and_m", "Cpsr", I(NotBits(T_bit, 32))>> >>
    ELSE << <<"mov_from64", R("tmp1"), "Cpsr", "AfterCpsr">>,
            <<"mov", R("tmp2"), R("tmp1")>>,
            <<"and", R("tmp2"), I(Sext32(NotBits(T_bit, 32)))>>,
            <<"or", R("tmp1"), I(Sext32(T_bit))>>,
            <<"test", R("new_pc"), I(Sext32({0}))>>,
            <<"cmov", R("tmp1"), R("tmp2"), "e">>,
            <<"mov_to64", "Cpsr", "AfterCpsr", R("tmp1")>>,
            <<"lea64", R("tmp2"), R("new_pc"), R("new_pc")>>,
            <<"or", R("tmp2"), I(Sext32(2..31))>>,
            <<"and", R("new_pc"), R("tmp2")>>,
            <<"mov_to64", "PC", "AfterPC", R("new_pc")>> >>

(***************************************************************************)
(* The exclusive monitor.  The rules of ClearExclusive, SetExclusive and   *)
(* the exclusive writes work on the guest fields exclusive_state (a byte)  *)
(* and exclusive_address; HostCall puts the address in ABI_PARAM1 and the  *)
(* value in ABI_PARAM2, and the write callback is the store.  excl.log     *)
(* keeps, for each operation run, [op, addr, passed, calls]: its address,  *)
(* the value left in passed (writes only, else -1) and the calls made.     *)
(***************************************************************************)
\* JitState::RESERVATION_GRANULE_MASK (0xFFFFFFF8)
RESERVATION_GRANULE_MASK == 3..31

EmitClearExclusive(inst) ==
    << <<"mov8_m", "exclusive_state", Imm8(0)>> >>

EmitSetExclusive(inst) ==
    << <<"mov8_m", "exclusive_state", Imm8(1)>>,
       <<"mov_to", "exclusive_address", R("address")>> >>

\* The helper with the monitor left set by a successful write
ExclusiveWriteKeepsMonitor(fn) ==
    << <<"mov", R("passed"), I({0})>>,
       <<"cmp8_m", "exclusive_state", Imm8(0)>>,
       <<"j", "e", ".end">>,
       <<"mov", R("ABI_RETURN"), R("ABI_PARAM1")>>,
       <<"xor_from", R("ABI_RETURN"), "exclusive_address">>,
       <<"test", R("ABI_RETURN"), I(RESERVATION_GRANULE_MASK)>>,
       <<"j", "ne", ".end">>,
       <<"CallFunction", fn>>,
       <<"xor", R("passed"), R("passed")>>,
       <<"L", ".end">> >>

ExclusiveWrite(fn) ==
    << <<"mov", R("passed"), I({0})>>,
       <<"cmp8_m", "exclusive_state", Imm8(0)>>,
       <<"j", "e", ".end">>,
       <<"mov", R("ABI_RETURN"), R("ABI_PARAM1")>>,
       <<"xor_from", R("ABI_RETURN"), "exclusive_address">>,
       <<"test", R("ABI_RETURN"), I(RESERVATION_GRANULE_MASK)>>,
       <<"j", "ne", ".end">>,
       <<"mov8_m", "exclusive_state", Imm8(0)>>,
       <<"CallFunction", fn>>,
       <<"xor", R("passed"), R("passed")>>,
       <<"L", ".end">> >>

EmitExclusiveWriteMemory8(inst) == ExclusiveWrite("Write8")
EmitExclusiveWriteMemory16(inst) == ExclusiveWrite("Write16")
EmitExclusiveWriteMemory32(inst) == ExclusiveWrite("Write32")

EmitExclusiveWriteMemory64(inst) ==
    << <<"mov", R("passed"), I({0})>>,
       <<"cmp8_m", "exclusive_state", Imm8(0)>>,
       <<"j", "e", ".end">>,
       <<"mov", R("ABI_RETURN"), R("ABI_PARAM1")>>,
       <<"xor_from", R("ABI_RETURN"), "exclusive_address">>,
       <<"test", R("ABI_RETURN"), I(RESERVATION_GRANULE_MASK)>>,
       <<"j", "ne", ".end">>,
       <<"mov8_m", "exclusive_state", Imm8(0)>>,
       <<"mov32", R("ABI_PARAM2"), R("ABI_PARAM2")>>,
       <<"shl64", R("value_hi"), 32>>,
       <<"or", R("ABI_PARAM2"), R("value_hi")>>,
       <<"CallFunction", "Write64">>,
       <<"xor", R("passed"), R("passed")>>,
       <<"L", ".end">> >>

\* The value written: 0xDEADBEEF, with 0x01020304 as the upper word of a
\* 64-bit write
ExclValue == W(57005, 48879)
ExclValueHi == W(258, 772)

WriteCode(fn) ==
    CASE fn = "Write8" -> EmitExclusiveWriteMemory8(0)
      [] fn = "Write16" -> EmitExclusiveWriteMemory16(0)
      [] fn = "Write32" -> EmitExclusiveWriteMemory32(0)
      [] OTHER -> EmitExclusiveWriteMemory64(0)

(***************************************************************************)
(* The rules that call out of the emitted code.  Each gives [ok, code]:    *)
(* whether emission went through (no assertion failed) and the code.  The  *)
(* guest field page_table is the set of page indices that cb.page_table    *)
(* maps; pointers are words that are not zero.  ABI_RETURN is rax.         *)
(***************************************************************************)
Emitted(code) == [ok |-> TRUE, code |-> code]

\* A pointer of the host (the jit interface, a user argument, a table)
HostPtr == I({12, 30})

EmitCallSupervisor(inst) ==
    Emitted(<< <<"SwitchMxcsrOnExit">>,
               <<"CallFunction", "CallSVC">>,
               <<"SwitchMxcsrOnEntry">> >>)

\* inst is [page_table, bit_size]; the direct access itself is left out
MemoryAccess(inst, fn, stub) ==
    IF ~inst.page_table
    THEN Emitted(<< <<"CallFunction", fn>> >>)
    ELSE Emitted(<< <<"mov", R("ABI_RETURN"), HostPtr>>,
                    <<"mov32", R("page_index"), R("ABI_PARAM1")>>,
                    <<"shr", R("page_index"), Imm8(12)>>,
                    <<"mov_page", R("ABI_RETURN"), R("page_index")>>,
                    <<"test", R("ABI_RETURN"), R("ABI_RETURN")>>,
                    <<"j", "z", ".abort">>,
                    <<"mov32", R("page_offset"), R("ABI_PARAM1")>>,
                    <<"and", R("page_offset"), I(0..11)>>,
                    <<"access", inst.bit_size>>,
                    <<"j", "mp", ".end">>,
                    <<"L", ".abort">>,
                    <<"call", stub>>,
                    <<"L", ".end">> >>)

ReadMemory(inst, fn) == MemoryAccess(inst, fn, "GetMemoryReadCallback")
WriteMemory(inst, fn) == MemoryAccess(inst, fn, "GetMemoryWriteCallback")

\* ASSERT_MSG(false, "Should raise coproc exception here")
EmitCoprocessorException == [ok |-> FALSE, code |-> <<>>]

\* callback is [user_arg]: whether the callback has a user argument
CallCoprocCallback(callback) ==
    Emitted(<< <<"mov", R("ABI_PARAM1"), HostPtr>> >>
            \o (IF callback.user_arg THEN << <<"mov", R("ABI_PARAM2"), HostPtr>> >> ELSE <<>>)
            \o << <<"CallFunction", "callback.function">> >>)

\* inst is [coproc, action, user_arg]: whether cb.coprocessors[coproc_num]
\* is set, and what its Compile function returns: "none", "callback" or
\* "pointer".
EmitCoprocInternalOperation(inst) ==
    IF ~inst.coproc THEN EmitCoprocessorException
    ELSE IF inst.action = "none" THEN EmitCoprocessorException
    ELSE CallCoprocCallback([user_arg |-> inst.user_arg])

EmitCoprocSendOneWord(inst) ==
    IF ~inst.coproc THEN EmitCoprocessorException
    ELSE CASE inst.action = "none" -> EmitCoprocessorException
           [] inst.action = "callback" -> CallCoprocCallback([user_arg |-> inst.user_arg])
           [] OTHER -> Emitted(<< <<"mov", R("reg_destination_addr"), HostPtr>>,
                                  <<"store", R("reg_destination_addr"), R("reg_word")>> >>)

\* EmitTerminal(Interpret): the code after the flag assertions
InterpretCode(next_pc) ==
    Emitted(<< <<"mov", R("ABI_PARAM1"), I(next_pc)>>,
               <<"mov", R("ABI_PARAM2"), HostPtr>>,
               <<"mov", R("ABI_PARAM3"), HostPtr>>,
               <<"mov_to", "PC", R("ABI_PARAM1")>>,
               <<"SwitchMxcsrOnExit">>,
               <<"CallFunction", "InterpreterFallback">>,
               <<"ReturnFromRunCode", FALSE>> >>)

(***************************************************************************)
(* The rules that write one CPSR flag.  inst is [imm, value]: the argument *)
(* is an immediate U1 (then value is it) or sits in the register to_store. *)
(***************************************************************************)
\* A flag setter that does not clear the flag before it ORs the argument in
EmitSetFlagNoClear(flag_bit, inst) ==
    IF inst.imm
    THEN IF inst.value = 1
         THEN << <<"or_m", "Cpsr", I({flag_bit})>> >>
         ELSE << <<"and_m", "Cpsr", I(NotBits({flag_bit}, 32))>> >>
    ELSE << <<"shl", R("to_store"), Imm8(flag_bit)>>,
            <<"or_m", "Cpsr", R("to_store")>> >>

\* EmitSetNFlag, EmitSetZFlag, EmitSetCFlag, EmitSetVFlag: the same code
\* with flag_bit = 31, 30, 29, 28
EmitSetFlag(flag_bit, inst) ==
    IF inst.imm
    THEN IF inst.value = 1
         THEN << <<"or_m", "Cpsr", I({flag_bit})>> >>
         ELSE << <<"and_m", "Cpsr", I(NotBits({flag_bit}, 32))>> >>
    ELSE << <<"shl", R("to_store"), Imm8(flag_bit)>>,
            <<"and_m", "Cpsr", I(NotBits({flag_bit}, 32))>>,
            <<"or_m", "Cpsr", R("to_store")>> >>

EmitSetNFlag(inst) == EmitSetFlag(31, inst)
EmitSetZFlag(inst) == EmitSetFlag(30, inst)
EmitSetCFlag(inst) == EmitSetFlag(29, inst)
EmitSetVFlag(inst) == EmitSetFlag(28, inst)

\* OrQFlag that stores the argument as the new Q
EmitOrQFlagAssigning(inst) == EmitSetFlag(27, inst)

\* EmitX64::EmitOrQFlag
EmitOrQFlag(inst) ==
    IF inst.imm
    THEN IF inst.value = 1
         THEN << <<"or_m", "Cpsr", I({27})>> >>
         ELSE << >>
    ELSE << <<"shl", R("to_store"), Imm8(27)>>,
            <<"or_m", "Cpsr", R("to_store")>> >>

(***************************************************************************)
(* The calls an emit rule makes on the register allocator, in the order of *)
(* the code.  inst is [rule, imm, pseudo]: the opcode, whether the         *)
(* argument that may be an immediate is one (for SignedSaturation whether  *)
(* N = 32, for ReadMemory whether there is no page table), and whether the *)
(* pseudo-operations of the rule are attached.                             *)
(***************************************************************************)
\* EmitIdentity
AllocIdentity(inst) == IF inst.imm THEN << >> ELSE << "RegisterAddDef" >>

\* EmitGetZFlag
AllocGetZFlag(inst) == << "DefGpr" >>

\* EmitSetNFlag
AllocSetNFlag(inst) == IF inst.imm THEN << >> ELSE << "UseScratchGpr" >>

\* EmitLogicalShiftLeft, with and without carry_inst
AllocLogicalShiftLeft(inst) ==
    IF ~inst.pseudo
    THEN IF inst.imm THEN << "UseDefGpr" >>
         ELSE << "UseGpr", "UseDefGpr", "ScratchGpr" >>
    ELSE IF inst.imm THEN << "UseDefGpr", "UseDefGpr" >>
         ELSE << "UseGpr", "UseDefGpr", "UseDefGpr" >>

\* DoCarry
AllocDoCarry(inst) ==
    IF inst.imm
    THEN IF inst.pseudo THEN << "DefGpr" >> ELSE << >>
    ELSE IF inst.pseudo THEN << "UseDefGpr" >> ELSE << "UseGpr" >>

\* EmitAddWithCarry with b in a register
AllocAddWithCarry(inst) ==
    << "UseDefGpr" >> \o AllocDoCarry(inst)
        \o (IF inst.pseudo THEN << "DefGpr" >> ELSE << >>)
        \o << "UseOpArg" >>

\* EmitUnsignedSaturation
AllocUnsignedSaturation(inst) ==
    << "DefGpr", "UseGpr", IF inst.pseudo THEN "DefGpr" ELSE "ScratchGpr" >>

\* EmitSignedSaturation
AllocSignedSaturation(inst) ==
    IF inst.imm THEN << "RegisterAddDef" >>
    ELSE << "DefGpr", "UseGpr", IF inst.pseudo THEN "DefGpr" ELSE "ScratchGpr",
            "ScratchGpr" >>

\* ReadMemory
AllocReadMemory(inst) ==
    IF inst.imm THEN << "HostCall" >>
    ELSE << "DefGpr", "UseScratchGpr", "ScratchGpr", "ScratchGpr" >>

\* ExclusiveWrite
AllocExclusiveWrite(inst) == << "HostCall", "DefGpr" >>

AllocRules ==
    << "GetZFlag", "SetNFlag", "LogicalShiftLeft", "AddWithCarry",
       "UnsignedSaturation", "SignedSaturation", "ReadMemory", "ExclusiveWrite" >>

\* The switch of the instruction loop, for the allocator calls of a rule
AllocCalls(inst) ==
    CASE inst.rule = "Identity" -> AllocIdentity(inst)
      [] inst.rule = "GetZFlag" -> AllocGetZFlag(inst)
      [] inst.rule = "SetNFlag" -> AllocSetNFlag(inst)
      [] inst.rule = "LogicalShiftLeft" -> AllocLogicalShiftLeft(inst)
      [] inst.rule = "AddWithCarry" -> AllocAddWithCarry(inst)
      [] inst.rule = "UnsignedSaturation" -> AllocUnsignedSaturation(inst)
      [] inst.rule = "SignedSaturation" -> AllocSignedSaturation(inst)
      [] inst.rule = "ReadMemory" -> AllocReadMemory(inst)
      [] OTHER -> AllocExclusiveWrite(inst)

\* The instructions of the block after the rule of insts[i]: the rules
\* erase the pseudo-operations they take, but EmitSignedSaturation with
\* N = 32 leaves its GetOverflowFromOp behind as an Identity of the
\* immediate false, next in the list.
AllocAfter(insts, i) ==
    IF insts[i].rule = "SignedSaturation" /\ insts[i].imm /\ insts[i].pseudo
    THEN SubSeq(insts, 1, i)
            \o << [rule |-> "Identity", imm |-> TRUE, pseudo |-> FALSE] >>
            \o SubSeq(insts, i + 1, Len(insts))
    ELSE insts

\* The instruction loop of Emit: the rule of each instruction in the
\* block, then reg_alloc.EndOfAllocScope(); after the loop
\* reg_alloc.AssertNoMoreUses().  The result holds the calls and the
\* instructions the loop went through.
RECURSIVE AllocLoop(_, _)
AllocLoop(insts, i) ==
    IF i > Len(insts) THEN [calls |-> << "AssertNoMoreUses" >>, insts |-> insts]
    ELSE LET rest == AllocLoop(AllocAfter(insts, i), i + 1)
         IN [calls |-> AllocCalls(insts[i]) \o << "EndOfAllocScope" >> \o rest.calls,
             insts |-> rest.insts]

(***************************************************************************)
(* Runs of single emit rules.  opIn is [op, form, a, b, c, s, f0]: the IR  *)
(* opcode, the operand form, the operand values a and b (words), the       *)
(* carry-in c (0 or 1), the small operand s (shift amount or N) and the    *)
(* state of whatever the rule does not define on entry (the host flags and *)
(* the register bits above an 8-bit or 1-bit IR value).  opOut is          *)
(* [done, result, carry, overflow, pc, cpsr].                              *)
(***************************************************************************)
OpInput(op, form, a, b, c, s, f0) == [op |-> op, form |-> form, a |-> a, b |-> b, c |-> c, s |-> s, f0 |-> f0]

OpOutput(result, carry, overflow, g) == [done |-> TRUE, result |-> result, carry |-> carry, overflow |-> overflow, pc |-> g.PC, cpsr |-> g.Cpsr]

Words ==
    { W(0, 0), W(0, 1), W(32767, 65535), W(32768, 0), W(65535, 65535),
      W(32768, 1), W(57005, 48879), W(258, 772) }

ShiftAmounts == {0, 1, 2, 31, 32, 33, 63, 64, 65, 128, 255}

ShiftOps == {"LogicalShiftLeft", "LogicalShiftRight", "ArithmeticShiftRight", "RotateRight"}

\* Register bits above the value of an 8-bit or 1-bit IR value
Dirty(f0) == IF f0 THEN {9, 20} ELSE {}

Guest0 == [PC |-> {}, Cpsr |-> {}]

ShiftInputs ==
    { OpInput(op, form, a, {}, c, s, f0) :
        op \in ShiftOps, form \in {"imm", "reg"}, a \in Words, c \in 0..1,
        s \in ShiftAmounts, f0 \in BOOLEAN }

ShiftInst(in) == [op |-> in.op, carry_inst |-> TRUE, shift_imm |-> (in.form = "imm"), shift |-> in.s]

ShiftCode(inst) ==
    CASE inst.op = "LogicalShiftLeft" -> EmitLogicalShiftLeft(inst)
      [] inst.op = "LogicalShiftRight" -> EmitLogicalShiftRight(inst)
      [] inst.op = "ArithmeticShiftRight" -> EmitArithmeticShiftRight(inst)
      [] OTHER -> EmitRotateRight(inst)

ShiftEntry(in) ==
    HostState([result |-> in.a,
               shift |-> Bits(in.s, 0) \cup Dirty(in.f0),
               carry |-> Bits(in.c, 0) \cup Dirty(in.f0)], Guest0, in.f0)

ShiftOutput(st) == OpOutput(st.r.result, Low(st.r.carry, 8), 0, st.g)

otherVars == <<backendVars, pc, jit_state, ran, condIn, condOut>>

OthersIdle ==
    /\ BackendIs(Backend0)
    /\ nOps = 0
    /\ pc = Dispatch
    /\ jit_state = JitState0
    /\ ran = NoRun
    /\ condIn = <<AL, {}>>
    /\ condOut = "none"

\* The code of a shift with its carry pseudo-operation is emitted and run.
EvalShift ==
    /\ opIn.op \in ShiftOps
    /\ ~opOut.done
    /\ opOut' = ShiftOutput(Run86(ShiftCode(ShiftInst(opIn)), 1, ShiftEntry(opIn)))
    /\ UNCHANGED <<otherVars, opIn, excl, ir_block, debug_asserts>>

ArithOps == {"AddWithCarry", "SubWithCarry"}

\* b immediate or register, carry-in immediate or register
ArithForms == {"imm_imm", "imm_reg", "reg_imm", "reg_reg"}

ArithInputs ==
    { OpInput(op, form, a, b, c, 0, f0) :
        op \in ArithOps, form \in ArithForms, a \in Words, b \in Words,
        c \in 0..1, f0 \in BOOLEAN }

ArithInst(in) ==
    [b_imm |-> in.form \in {"imm_imm", "imm_reg"}, b |-> in.b,
     carry_imm |-> in.form \in {"imm_imm", "reg_imm"}, carry_in |-> in.c,
     carry_inst |-> TRUE, overflow_inst |-> TRUE]

ArithCode(in) ==
    IF in.op = "AddWithCarry" THEN EmitAddWithCarryCode(ArithInst(in))
    ELSE EmitSubWithCarryCode(ArithInst(in))

\* UseDefGpr(a, inst); DoCarry: a register carry-in is in carry, else carry
\* is a fresh register; DefGpr(overflow_inst); UseOpArg(b).
ArithEntry(in) ==
    HostState([result |-> in.a,
               op_arg |-> IF ArithInst(in).b_imm THEN {} ELSE in.b,
               carry |-> (IF ArithInst(in).carry_imm THEN {} ELSE Bits(in.c, 0)) \cup Dirty(in.f0),
               overflow |-> Dirty(in.f0)], Guest0, in.f0)

ArithOutput(st) == OpOutput(st.r.result, Low(st.r.carry, 8), Low(st.r.overflow, 8), st.g)

\* The code of AddWithCarry or SubWithCarry with both pseudo-operations is
\* emitted and run.
EvalArith ==
    /\ opIn.op \in ArithOps
    /\ ~opOut.done
    /\ opOut' = ArithOutput(Run86(ArithCode(opIn), 1, ArithEntry(opIn)))
    /\ UNCHANGED <<otherVars, opIn, excl, ir_block, debug_asserts>>

\* Values at and next to the bounds for N = 1, 8, 16 and 31
SatWords ==
    Words \cup
    { W(65535, 65534), W(0, 127), W(0, 128), W(65535, 65408), W(65535, 65407),
      W(0, 32767), W(0, 32768), W(65535, 32768), W(65535, 32767),
      W(16383, 65535), W(16384, 0), W(49152, 0), W(49151, 65535) }

SatInputs ==
    { OpInput("SignedSaturation", "reg", a, {}, 0, N, f0) :
        a \in SatWords, N \in 1..32, f0 \in BOOLEAN }

SatInst(in) == [N |-> in.s, overflow_inst |-> TRUE]

\* DefGpr(inst), UseGpr(a), DefGpr(overflow_inst), ScratchGpr()
SatEntry(in) ==
    HostState([reg_a |-> in.a, result |-> Dirty(in.f0), overflow |-> Dirty(in.f0),
               tmp |-> Dirty(in.f0)], Guest0, in.f0)

\* N = 32: RegisterAddDef(inst, a) makes the register of a the result, and
\* ReplaceUsesWith makes the overflow the constant false.
SatOutput(inst, st) ==
    IF inst.N = 32 THEN OpOutput(st.r.reg_a, 0, 0, st.g)
    ELSE OpOutput(st.r.result, 0, Low(st.r.overflow, 8), st.g)

\* The code of SignedSaturation with its overflow pseudo-operation is
\* emitted and run.
EvalSat ==
    /\ opIn.op = "SignedSaturation"
    /\ ~opOut.done
    /\ opOut' = SatOutput(SatInst(opIn), Run86(EmitSignedSaturation(SatInst(opIn)), 1, SatEntry(opIn)))
    /\ UNCHANGED <<otherVars, opIn, excl, ir_block, debug_asserts>>

PackedOps == {"PackedHalvingAddU8", "PackedHalvingAddS8", "PackedHalvingAddS16"}

PackedWords ==
    Words \cup { W(772, 1286), W(255, 65280), W(32896, 32896), W(32767, 32769),
                 W(0, 128), W(128, 0), W(65280, 255) }

\* form: whether the host has SSSE3 (it matters to PackedHalvingAddU8 only)
PackedInputs ==
    { OpInput(op, form, a, b, 0, 0, f0) :
        op \in PackedOps, form \in {"ssse3", "gpr"}, a \in PackedWords,
        b \in PackedWords, f0 \in BOOLEAN }

PackedInst(form) == [ssse3 |-> (form = "ssse3")]

PackedCode(op, inst) ==
    CASE op = "PackedHalvingAddU8" -> EmitPackedHalvingAddU8(inst)
      [] op = "PackedHalvingAddS8" -> EmitPackedHalvingAddS8(inst)
      [] OTHER -> EmitPackedHalvingAddS16(inst)

\* UseDefGpr(a, inst) and UseGpr(b) under the names of either path; the
\* scratch registers hold anything.
PackedEntry(in) ==
    HostState([result |-> in.a, arg |-> in.b, reg_a |-> in.a, reg_b |-> in.b,
               xor_a_b |-> Dirty(in.f0), carry |-> Dirty(in.f0), mask |-> Dirty(in.f0)],
              Guest0, in.f0)

\* The register of the result: result on the SSSE3 path, reg_a otherwise
PackedResult(op, form, in) ==
    IF op = "PackedHalvingAddU8" /\ form = "ssse3"
    THEN Run86(PackedCode(op, PackedInst(form)), 1, PackedEntry(in)).r.result
    ELSE Run86(PackedCode(op, PackedInst(form)), 1, PackedEntry(in)).r.reg_a

\* The code of a packed halving add is emitted and run.
EvalPacked ==
    /\ opIn.op \in PackedOps
    /\ ~opOut.done
    /\ opOut' = OpOutput(PackedResult(opIn.op, opIn.form, opIn), 0, 0, Guest0)
    /\ UNCHANGED <<otherVars, opIn, excl, ir_block, debug_asserts>>

\* Values of p with every combination of the low two bits
BXWords == Words \cup { W(0, 4097), W(0, 4098), W(0, 4099), W(65535, 65534) }

\* CPSR before: T clear or set, among other bits
BXCpsrs == { {}, T_bit, W(61440, 0), W(61440, 32), W(65535, 65535), W(65535, 65503) }

\* opIn.a is p, opIn.b the CPSR before
BXInputs ==
    { OpInput("BXWritePC", form, p, cpsr, 0, 0, f0) :
        form \in {"imm", "reg"}, p \in BXWords, cpsr \in BXCpsrs, f0 \in BOOLEAN }

BXInst(in) == [imm |-> (in.form = "imm"), new_pc |-> in.a]

\* The upper half of a 64-bit register that holds a 32-bit value
DirtyHigh(f0) == IF f0 THEN {33, 63} ELSE {}

\* The guest state before: the fields after Cpsr and after PC hold anything.
BXGuest(in) ==
    [PC |-> Dirty(in.f0), Cpsr |-> in.b, AfterCpsr |-> W(4660, 22136), AfterPC |-> Dirty(in.f0)]

\* UseScratchGpr(arg), ScratchGpr(), ScratchGpr()
BXEntry(in) ==
    HostState([new_pc |-> IF BXInst(in).imm THEN {} ELSE in.a \cup DirtyHigh(in.f0),
               tmp1 |-> Dirty(in.f0), tmp2 |-> Dirty(in.f0)], BXGuest(in), in.f0)

\* The guest state the code of BXWritePC leaves
BXRun(form, in) == Run86(EmitBXWritePC(BXInst([in EXCEPT !.form = form])), 1, BXEntry([in EXCEPT !.form = form])).g

\* The code of BXWritePC is emitted and run.
EvalBXWritePC ==
    /\ opIn.op = "BXWritePC"
    /\ ~opOut.done
    /\ opOut' = OpOutput({}, 0, 0, BXRun(opIn.form, opIn))
    /\ UNCHANGED <<otherVars, opIn, excl, ir_block, debug_asserts>>

CoprocOps == {"CoprocInternalOperation", "CoprocSendOneWord"}
CalloutOps ==
    {"CallSupervisor", "ReadMemory", "WriteMemory", "ExclusiveWriteMemory", "Interpret"} \cup CoprocOps

\* form: for the memory accesses whether the driver gave a page table, for
\* the coprocessor operations the coprocessor and what it compiles to;
\* a is the address, s the width of the access, c whether the coprocessor
\* callback has a user argument.
CalloutInputs ==
    { OpInput("CallSupervisor", "imm", {}, {}, 0, 0, f0) : f0 \in BOOLEAN }
    \cup { OpInput(op, form, a, {}, 0, s, f0) :
             op \in {"ReadMemory", "WriteMemory"}, form \in {"callback", "page_table"},
             a \in {W(0, 4100), W(16, 4100)}, s \in {8, 16, 32, 64}, f0 \in BOOLEAN }
    \cup { OpInput("ExclusiveWriteMemory", "callback", a, {}, 0, s, f0) :
             a \in {W(0, 4100), W(16, 4100)}, s \in {8, 16, 32, 64}, f0 \in BOOLEAN }
    \cup { OpInput("Interpret", "imm", a, {}, 0, 0, f0) : a \in {W(0, 4100)}, f0 \in BOOLEAN }
    \cup { OpInput(op, form, {}, {}, c, 0, f0) :
             op \in CoprocOps, form \in {"unmapped", "none", "callback", "pointer"},
             c \in 0..1, f0 \in BOOLEAN }

MemoryFn(kind, s) ==
    CASE s = 8 -> kind \o "8"
      [] s = 16 -> kind \o "16"
      [] s = 32 -> kind \o "32"
      [] OTHER -> kind \o "64"

MemoryInst(in) == [page_table |-> (in.form = "page_table"), bit_size |-> in.s]
CoprocInst(in) == [coproc |-> (in.form # "unmapped"), action |-> in.form, user_arg |-> (in.c = 1)]

\* CompileInternalOperation gives a callback or nothing: never a pointer
CalloutEmit(in) ==
    CASE in.op = "CallSupervisor" -> EmitCallSupervisor(0)
      [] in.op = "ReadMemory" -> ReadMemory(MemoryInst(in), MemoryFn("Read", in.s))
      [] in.op = "WriteMemory" -> WriteMemory(MemoryInst(in), MemoryFn("Write", in.s))
      [] in.op = "ExclusiveWriteMemory" -> Emitted(WriteCode(MemoryFn("Write", in.s)))
      [] in.op = "Interpret" -> InterpretCode(in.a)
      [] in.op = "CoprocInternalOperation" ->
            EmitCoprocInternalOperation([CoprocInst(in) EXCEPT !.action = IF @ = "pointer" THEN "callback" ELSE @])
      [] OTHER -> EmitCoprocSendOneWord(CoprocInst(in))

\* The page of 0x00001004 is mapped, that of 0x00101004 is not; the monitor
\* is set on the address.
CalloutGuest(in) ==
    [PC |-> {}, Cpsr |-> {}, page_table |-> {{0}},
     exclusive_state |-> {0}, exclusive_address |-> in.a]

CalloutEntry(in) ==
    HostState([ABI_PARAM1 |-> in.a \cup DirtyHigh(in.f0), ABI_PARAM2 |-> ExclValue,
               value_hi |-> ExclValueHi, passed |-> Dirty(in.f0)], CalloutGuest(in), in.f0)

\* What a run of the code shows: the calls with the state of MXCSR at each,
\* and MXCSR at the end
CalloutOutput(st) ==
    [done |-> TRUE, ok |-> TRUE,
     calls |-> [i \in 1..Len(st.trace) |-> <<st.trace[i][1], st.trace[i][2]>>],
     mxcsr |-> st.mxcsr]

\* Emission that an assertion aborted leaves no code to run
CalloutAborted == [done |-> TRUE, ok |-> FALSE, calls |-> <<>>, mxcsr |-> "guest"]

CalloutRun(e, in) ==
    IF e.ok THEN CalloutOutput(Run86(e.code, 1, CalloutEntry(in))) ELSE CalloutAborted

\* The rule of an instruction or terminal that calls out is emitted and, if
\* emission went through, its code run.
EvalCallout ==
    /\ opIn.op \in CalloutOps
    /\ ~opOut.done
    /\ opOut' = CalloutRun(CalloutEmit(opIn), opIn)
    /\ UNCHANGED <<otherVars, opIn, excl, ir_block, debug_asserts>>

FlagOps == {"OrQFlag", "SetNFlag", "SetZFlag", "SetCFlag", "SetVFlag"}

\* CPSR values before the rule runs
FlagCpsrs ==
    { {}, {27}, {28, 29, 30, 31}, {0, 5, 27}, 0..31, {26, 28}, {4, 9, 29, 31}, (0..31) \ {27} }

FlagInputs ==
    { OpInput(op, form, {}, cpsr, c, 0, f0) :
        op \in FlagOps, form \in {"imm", "reg"}, cpsr \in FlagCpsrs, c \in 0..1,
        f0 \in BOOLEAN }

FlagInst(in) == [imm |-> (in.form = "imm"), value |-> in.c]

FlagCode(in) ==
    CASE in.op = "OrQFlag" -> EmitOrQFlag(FlagInst(in))
      [] in.op = "SetNFlag" -> EmitSetNFlag(FlagInst(in))
      [] in.op = "SetZFlag" -> EmitSetZFlag(FlagInst(in))
      [] in.op = "SetCFlag" -> EmitSetCFlag(FlagInst(in))
      [] OTHER -> EmitSetVFlag(FlagInst(in))

\* UseScratchGpr(arg): the U1 argument is the low byte of to_store
FlagEntry(in) ==
    HostState([to_store |-> IF FlagInst(in).imm THEN {} ELSE Bits(in.c, 0) \cup Dirty(in.f0)],
              [PC |-> {}, Cpsr |-> in.b], in.f0)

\* The code of a flag rule is emitted and run.
EvalFlag ==
    /\ opIn.op \in FlagOps
    /\ ~opOut.done
    /\ opOut' = OpOutput({}, 0, 0, Run86(FlagCode(opIn), 1, FlagEntry(opIn)).g)
    /\ UNCHANGED <<otherVars, opIn, excl, ir_block, debug_asserts>>

\* A block of two instructions: the rule named by form, then the rule
\* AllocRules[s]; c = 1 takes the immediate form of both, f0 attaches the
\* pseudo-operations.
AllocInputs ==
    { OpInput("RegAlloc", AllocRules[r], {}, {}, c, s, f0) :
        r \in 1..Len(AllocRules), s \in 1..Len(AllocRules), c \in 0..1, f0 \in BOOLEAN }

AllocInst(rule, in) == [rule |-> rule, imm |-> (in.c = 1), pseudo |-> in.f0]

AllocBlock(in) == << AllocInst(in.form, in), AllocInst(AllocRules[in.s], in) >>

\* The block is emitted; the calls on the register allocator are recorded.
EvalRegAlloc ==
    /\ opIn.op = "RegAlloc"
    /\ ~opOut.done
    /\ opOut' = [done |-> TRUE,
                 calls |-> AllocLoop(AllocBlock(opIn), 1).calls,
                 insts |-> AllocLoop(AllocBlock(opIn), 1).insts]
    /\ UNCHANGED <<otherVars, opIn, excl, ir_block, debug_asserts>>

(***************************************************************************)
(* The specification of the single-rule runs: an input is drawn, the rule  *)
(* for its opcode is emitted and its code run once.                        *)
(***************************************************************************)
OpInputs == ShiftInputs \cup ArithInputs \cup SatInputs \cup PackedInputs \cup BXInputs
    \cup CalloutInputs \cup FlagInputs \cup AllocInputs

InitOp ==
    /\ OthersIdle
    /\ opIn \in OpInputs
    /\ opOut = NoOpOut
    /\ excl = Excl0
    /\ ir_block = NoBlock
    /\ debug_asserts = FALSE

NextOp ==
    \/ EvalShift
    \/ EvalArith
    \/ EvalSat
    \/ EvalPacked
    \/ EvalBXWritePC
    \/ EvalCallout
    \/ EvalFlag
    \/ EvalRegAlloc

SpecOp == InitOp /\ [][NextOp]_vars

(***************************************************************************)
(* The specification of the exclusive monitor: SetExclusive,               *)
(* ClearExclusive and exclusive writes run in any order, up to MaxExclOps  *)
(* operations, each on the monitor the one before left.                    *)
(***************************************************************************)
\* The number of monitor operations run
MaxExclOps == 3

\* 0x1000, 0x1007 (the same granule), 0x1008 and 0x80001000 (other granules)
ExclAddrs == { W(0, 4096), W(0, 4103), W(0, 4104), W(32768, 4096) }

WriteBits(fn) ==
    CASE fn = "Write8" -> 8
      [] fn = "Write16" -> 16
      [] fn = "Write32" -> 32
      [] OTHER -> 64

\* What a write callback receives: a 32-bit address and a value of its width
CallbackArgs(call) ==
    <<call[1], {b \in call[3] : b < 32}, {b \in call[4] : b < WriteBits(call[1])}>>

MonitorEntry(regs, f0) ==
    HostState(regs, [exclusive_state |-> excl.exclusive_state,
                     exclusive_address |-> excl.exclusive_address], f0)

\* The monitor and the log after the code of one operation has run
MonitorAfter(st, op, addr, passed) ==
    [exclusive_state |-> st.g.exclusive_state,
     exclusive_address |-> st.g.exclusive_address,
     log |-> Append(excl.log,
                    [op |-> op, addr |-> addr, passed |-> passed,
                     calls |-> [i \in 1..Len(st.trace) |-> CallbackArgs(st.trace[i])]])]

MonitorIdle == UNCHANGED <<otherVars, opIn, opOut, ir_block, debug_asserts>>

ClearExclusive ==
    /\ Len(excl.log) < MaxExclOps
    /\ \E f0 \in BOOLEAN :
          excl' = MonitorAfter(Run86(EmitClearExclusive(0), 1, MonitorEntry(<<>>, f0)),
                               "ClearExclusive", {}, -1)
    /\ MonitorIdle

SetExclusive ==
    /\ Len(excl.log) < MaxExclOps
    /\ \E addr \in ExclAddrs, f0 \in BOOLEAN :
          excl' = MonitorAfter(Run86(EmitSetExclusive(0), 1,
                                     MonitorEntry([address |-> addr], f0)),
                               "SetExclusive", addr, -1)
    /\ MonitorIdle

\* HostCall(nullptr, address, value), DefGpr(inst) and, for 64 bits,
\* UseScratchGpr(value_hi)
WriteEntry(addr, f0) ==
    MonitorEntry([ABI_PARAM1 |-> addr \cup DirtyHigh(f0),
                  ABI_PARAM2 |-> ExclValue \cup DirtyHigh(f0),
                  value_hi |-> ExclValueHi \cup DirtyHigh(f0),
                  passed |-> Dirty(f0), ABI_RETURN |-> Dirty(f0)], f0)

WriteAfter(st, addr) == MonitorAfter(st, "ExclusiveWrite", addr, BitsToInt(st.r.passed))

ExclusiveWriteMemory ==
    /\ Len(excl.log) < MaxExclOps
    /\ \E fn \in {"Write8", "Write16", "Write32"}, addr \in ExclAddrs, f0 \in BOOLEAN :
          excl' = WriteAfter(Run86(WriteCode(fn), 1, WriteEntry(addr, f0)), addr)
    /\ MonitorIdle

ExclusiveWriteMemory64 ==
    /\ Len(excl.log) < MaxExclOps
    /\ \E addr \in ExclAddrs, f0 \in BOOLEAN :
          excl' = WriteAfter(Run86(WriteCode("Write64"), 1, WriteEntry(addr, f0)), addr)
    /\ MonitorIdle

InitExcl ==
    /\ OthersIdle
    /\ OpIdle

NextExcl ==
    \/ ClearExclusive
    \/ SetExclusive
    \/ ExclusiveWriteMemory
    \/ ExclusiveWriteMemory64

SpecExcl == InitExcl /\ [][NextExcl]_vars

(***************************************************************************)
(* Linked blocks.  The cache holds blocks that end in LinkBlock,           *)
(* ReturnToDispatch, or If/CheckHalt over those; the dispatcher enters     *)
(* one with a cycle budget and emitted code runs from block to block.      *)
(* The host CPU keeps executing emitted code, so ExecBlock is weakly fair. *)
(***************************************************************************)
LinkedBlocks ==
    << Block(LocA, AL, FALSE, LocA, 0, << >>, LinkBlock(LocB), 1),
       Block(LocB, AL, FALSE, LocB, 0, << >>,
             If(NE, LinkBlock(LocA), ReturnToDispatch), 2),
       Block(LocC, AL, FALSE, LocC, 0, << >>, CheckHalt(LinkBlock(LocC)), 1),
       Block(LocB, EQ, TRUE, LocA, 1, << >>, LinkBlock(LocC), 1),
       Block(LocC, EQ, TRUE, LocC, 0, << >>, ReturnToDispatch, 1) >>

LinkedPrograms ==
    { <<1, 2, 3>>, <<2, 1>>, <<3>>, <<1, 4, 3>>, <<4, 1>>, <<1, 2, 5>>, <<5, 4>> }

RECURSIVE EmitAll(_, _, _)
EmitAll(B, p, i) ==
    IF i > Len(p) THEN B
    ELSE EmitAll(AfterEmit(B, p[i], UniqueHash(LinkedBlocks[p[i]].location),
                           EmitBlock(EmitterState(B), LinkedBlocks[p[i]])),
                 p, i + 1)

InitLinked ==
    /\ \E p \in LinkedPrograms :
          /\ BackendIs(EmitAll(Backend0, p, 1))
          /\ nOps = Len(p)
    /\ pc = Dispatch
    /\ jit_state = JitState0
    /\ ran = NoRun
    /\ condIn = <<AL, {}>>
    /\ condOut = "none"
    /\ OpIdle

NextLinked ==
    \/ RunCodeAny
    \/ ExecBlock
    \/ HaltExecution

SpecLinked == InitLinked /\ [][NextLinked]_vars /\ WF_vars(ExecBlock)

(***************************************************************************)
(* Producers of pseudo-operations.  Blocks whose instructions carry        *)
(* GetCarryFromOp, GetOverflowFromOp or GetGEFromOp pseudo-operations are  *)
(* emitted one after the other; emitLog keeps the instruction list as each *)
(* Emit left it.                                                           *)
(***************************************************************************)
MaxProducerEmits == 2

ProducerBlock(location, insts) ==
    Block(location, AL, FALSE, location, 0, insts, ReturnToDispatch, 1)

ProducerBlocks ==
    << ProducerBlock(LocA, << Inst(1, "AddWithCarry", 0),
                              Inst(2, "GetCarryFromOp", 1),
                              Inst(3, "GetOverflowFromOp", 1) >>),
       ProducerBlock(LocB, << Inst(1, "AddWithCarry", 0),
                              Inst(2, "GetOverflowFromOp", 1),
                              Inst(3, "SetRegister", <<"R0", 1>>) >>),
       ProducerBlock(LocA, << Inst(1, "LogicalShiftLeft", 0),
                              Inst(2, "GetCarryFromOp", 1) >>),
       ProducerBlock(LocC, << Inst(1, "LogicalShiftLeft", 0) >>),
       ProducerBlock(LocB, << Inst(1, "SignedSaturatedAdd", 0),
                              Inst(2, "GetOverflowFromOp", 1) >>),
       ProducerBlock(LocC, << Inst(1, "SignedSaturation", 8),
                              Inst(2, "GetOverflowFromOp", 1) >>),
       ProducerBlock(LocA, << Inst(1, "SignedSaturation", 32),
                              Inst(2, "GetOverflowFromOp", 1) >>),
       ProducerBlock(LocB, << Inst(1, "SignedSaturation", 32) >>),
       ProducerBlock(LocC, << Inst(1, "PackedAddU8", 0),
                              Inst(2, "GetGEFromOp", 1) >>),
       ProducerBlock(LocA, << Inst(1, "SetRegister", <<"R0", 1>>),
                              Inst(2, "SignedSaturation", 32),
                              Inst(3, "GetOverflowFromOp", 2),
                              Inst(4, "SignedSaturation", 16),
                              Inst(5, "GetOverflowFromOp", 4) >>),
       ProducerBlock(LocB, << Inst(1, "GetRegister", 0),
                              Inst(2, "SubWithCarry", 0),
                              Inst(3, "GetCarryFromOp", 2),
                              Inst(4, "GetOverflowFromOp", 2) >>),
       ProducerBlock(LocC, << Inst(1, "GetCpsr", 0),
                              Inst(2, "UnsignedSaturation", 8),
                              Inst(3, "GetOverflowFromOp", 2),
                              Inst(4, "RotateRight", 0),
                              Inst(5, "GetCarryFromOp", 4) >>),
       ProducerBlock(LocA, << Inst(1, "CoprocGetOneWord", "callback"),
                              Inst(2, "LeastSignificantByte", 0),
                              Inst(3, "PackedSubS16", 0),
                              Inst(4, "GetGEFromOp", 3) >>),
       ProducerBlock(LocB, << Inst(1, "MostSignificantWord", 0),
                              Inst(2, "GetCarryFromOp", 1),
                              Inst(3, "CoprocLoadWords", "callback") >>),
       ProducerBlock(LocC, << Inst(1, "GetExtendedRegister32", 1),
                              Inst(2, "SetExtendedRegister64", 33),
                              Inst(3, "LogicalShiftRight64", [imm |-> TRUE, shift |-> 63]),
                              Inst(4, "FPS32ToDouble", FALSE),
                              Inst(5, "SetExclusive", TRUE) >>),
       ProducerBlock(LocA, << Inst(1, "AddWithCarry", 0),
                              Inst(2, "GetCarryFromOp", 1),
                              Inst(3, "UnsignedSaturation", 32),
                              Inst(4, "GetOverflowFromOp", 3) >>),
       ProducerBlock(LocB, << Inst(1, "GetExtendedRegister64", 0) >>),
       ProducerBlock(LocC, << Inst(1, "LogicalShiftRight64", [imm |-> TRUE, shift |-> 64]),
                              Inst(2, "LogicalShiftLeft", 0),
                              Inst(3, "GetCarryFromOp", 2) >>),
       ProducerBlock(LocA, << Inst(1, "FPU32ToSingle", TRUE) >>),
       ProducerBlock(LocB, << Inst(1, "SetExclusive", FALSE) >>),
       ProducerBlock(LocC, << Inst(1, "GetRegister", 0),
                              Inst(2, "PushRSB", ValueOfInst(1)) >>) >>

EmitProducer(b) ==
    /\ ~aborted
    /\ nOps < MaxProducerEmits
    /\ SetBackend(AfterEmit(Backend, b, UniqueHash(ProducerBlocks[b].location),
                            EmitBlock(EmitterState(Backend), ProducerBlocks[b])))
    /\ nOps' = nOps + 1
    /\ UNCHANGED <<pc, jit_state, ran, condIn, condOut, opVars>>

NextProducers == \E b \in 1..Len(ProducerBlocks) : EmitProducer(b)

SpecProducers == Init /\ [][NextProducers]_vars

(***************************************************************************)
(* The return stack buffer.  The cache holds blocks that push one location *)
(* hash (PushRSB) and blocks that end in PopRSBHint; the dispatcher enters *)
(* them one after the other and the ring of the guest state is kept from   *)
(* one run to the next.                                                    *)
(***************************************************************************)
\* A location that is never compiled
LocD == [pc |-> 400, T |-> FALSE, E |-> TRUE, fpscr |-> 0]

PushBlock(location, target) ==
    Block(location, AL, FALSE, location, 0,
          << Inst(1, "PushRSB", ImmU64(UniqueHash(target))) >>, ReturnToDispatch, 1)

PopBlock(location, new_pc) ==
    Block(location, AL, FALSE, location, 0,
          << Inst(1, "SetRegister", <<"PC", new_pc>>) >>, PopRSBHint, 1)

RsbBlocks ==
    << PushBlock(LocA, LocC),
       PushBlock(LocB, LocA),
       PushBlock(LocC, LocD),
       PushBlock(LocB, LocC),
       PopBlock(LocC, LocA.pc),
       PopBlock(LocA, LocC.pc),
       PopBlock(LocB, LocC.pc),
       Block(LocB, AL, FALSE, LocB, 0,
             << Inst(1, "GetRegister", 0),
                Inst(2, "PushRSB", ValueOfInst(1)) >>, ReturnToDispatch, 1) >>

RsbPrograms ==
    { <<1, 2, 5>>, <<4, 3, 6>>, <<1, 7, 3>>, <<2, 5>>, <<3, 2, 1>>, <<5, 2, 1>> }

\* The ring as the runs before left it: after a reset, with the cursor at
\* the last slot, and full of hashes of other locations.
RsbRings ==
    { [rsb_ptr |-> 0,
       rsb_location_descriptors |-> [i \in 0..(RSBSize - 1) |-> <<-1, -1>>],
       rsb_codeptrs |-> [i \in 0..(RSBSize - 1) |-> 0]],
      [rsb_ptr |-> RSBSize - 1,
       rsb_location_descriptors |-> [i \in 0..(RSBSize - 1) |-> <<-1, -1>>],
       rsb_codeptrs |-> [i \in 0..(RSBSize - 1) |-> 0]],
      [rsb_ptr |-> 1,
       rsb_location_descriptors |->
           [i \in 0..(RSBSize - 1) |-> IF i = 2 THEN UniqueHash(LocA) ELSE <<77, i>>],
       rsb_codeptrs |-> [i \in 0..(RSBSize - 1) |-> ReturnFromRunCodeAddress]] }

RECURSIVE EmitRsbBlocks(_, _, _)
EmitRsbBlocks(B, p, i) ==
    IF i > Len(p) THEN B
    ELSE EmitRsbBlocks(AfterEmit(B, p[i], UniqueHash(RsbBlocks[p[i]].location),
                                 EmitBlock(EmitterState(B), RsbBlocks[p[i]])),
                       p, i + 1)

InitRsb ==
    /\ \E p \in RsbPrograms :
          /\ BackendIs(EmitRsbBlocks(Backend0, p, 1))
          /\ nOps = Len(p)
    /\ pc = Dispatch
    /\ \E ring \in RsbRings :
          jit_state = [JitState0 EXCEPT
                          !.rsb_ptr = ring.rsb_ptr,
                          !.rsb_location_descriptors = ring.rsb_location_descriptors,
                          !.rsb_codeptrs = ring.rsb_codeptrs]
    /\ ran = NoRun
    /\ condIn = <<AL, {}>>
    /\ condOut = "none"
    /\ OpIdle

NextRsb ==
    \/ RunCodeAny
    \/ ExecBlock

SpecRsb == InitRsb /\ [][NextRsb]_vars

(***************************************************************************)
(* The return stack buffer while the cache changes.  Between two runs a    *)
(* location is unpatched or a block is emitted: a push of a location that  *)
(* may have been unpatched, a new block for that location, or a push of a  *)
(* value that is no immediate.                                             *)
(***************************************************************************)
RsbLinkPrograms == { <<1, 2, 5>> }

RsbLateBlocks == {4, 5, 8}

InitRsbLinks ==
    /\ \E p \in RsbLinkPrograms :
          /\ BackendIs(EmitRsbBlocks(Backend0, p, 1))
          /\ nOps = Len(p)
    /\ pc = Dispatch
    /\ \E ring \in RsbRings :
          jit_state = [JitState0 EXCEPT
                          !.rsb_ptr = ring.rsb_ptr,
                          !.rsb_location_descriptors = ring.rsb_location_descriptors,
                          !.rsb_codeptrs = ring.rsb_codeptrs]
    /\ ran = NoRun
    /\ condIn = <<AL, {}>>
    /\ condOut = "none"
    /\ OpIdle

\* Emit(block) for block b of RsbBlocks
EmitRsb(b) ==
    /\ ~aborted
    /\ pc = Dispatch
    /\ nOps < MaxOps
    /\ SetBackend(AfterEmit(Backend, b, UniqueHash(RsbBlocks[b].location),
                            EmitBlock(EmitterState(Backend), RsbBlocks[b])))
    /\ nOps' = nOps + 1
    /\ UNCHANGED <<pc, jit_state, ran, condIn, condOut, opVars>>

EmitRsbAny == \E b \in RsbLateBlocks : EmitRsb(b)

NextRsbLinks ==
    \/ RunCodeAny
    \/ ExecBlock
    \/ EmitRsbAny
    \/ UnpatchAny

SpecRsbLinks == InitRsbLinks /\ [][NextRsbLinks]_vars

(***************************************************************************)
(* The IR block under construction.  The front-end constructs a Block for  *)
(* a location and calls AppendNewInst, SetCondition,                       *)
(* SetConditionFailedLocation and SetTerminal on it; opIn records the call *)
(* made last together with the block it was made on, and aborted tells     *)
(* that an ASSERT_MSG failed.                                              *)
(***************************************************************************)
\* instructions appended to one block
MaxInsts == 2

\* Term::Invalid, alternative 0 of the Terminal variant
Invalid == [kind |-> "Invalid"]

\* explicit Block(const Arm::LocationDescriptor&) and the member initialisers
NewBlock(location) ==
    [location |-> location, cond |-> AL, has_cond_failed |-> FALSE,
     cond_failed |-> <<0, 0>>, cond_failed_cycle_count |-> 0,
     instructions |-> << >>, terminal |-> Invalid, cycle_count |-> 0,
     constructed |-> TRUE]

GetTerminal(block) == block.terminal

\* terminal.which() != 0
HasTerminal(block) == block.terminal.kind # "Invalid"

HasConditionFailedLocation(block) == block.has_cond_failed

\* A SetTerminal with no assertion
SetTerminalUnchecked(block, term) ==
    [ok |-> TRUE, block |-> [block EXCEPT !.terminal = term]]

\* ASSERT_MSG(!HasTerminal(), ...); terminal = term
SetTerminal(block, term) ==
    IF HasTerminal(block) THEN [ok |-> FALSE, block |-> block]
    ELSE [ok |-> TRUE, block |-> [block EXCEPT !.terminal = term]]

\* Inst::NumArgs: the number of arguments of the opcode
NumArgs(opcode) ==
    CASE opcode = "GetZFlag" -> 0
      [] opcode = "SetNFlag" -> 1
      [] OTHER -> 3

\* DEBUG_ASSERT(args.size() == inst->NumArgs()), which stops the program
\* only in a build that compiles debug assertions in (debug); the arguments
\* given are set in order; instructions.push_back(inst).  With fewer
\* arguments than the opcode takes and no assertion, the instruction is
\* appended with the arguments given.
AppendNewInst(block, opcode, args, debug) ==
    IF debug /\ Len(args) # NumArgs(opcode) THEN [ok |-> FALSE, block |-> block]
    ELSE [ok |-> TRUE,
          block |-> [block EXCEPT !.instructions = Append(@, [op |-> opcode, args |-> args])]]

SetCondition(block, condition) == [block EXCEPT !.cond = condition]

\* Instructions().erase(inst), at position k of the list
InstructionsErase(block, k) ==
    [block EXCEPT !.instructions = EraseAt(@, k)]

\* CycleCount() = n and ConditionFailedCycleCount() = n, through the
\* references the accessors return
SetCycleCount(block, n) == [block EXCEPT !.cycle_count = n]
SetConditionFailedCycleCount(block, n) == [block EXCEPT !.cond_failed_cycle_count = n]

SetConditionFailedLocation(block, location) ==
    [block EXCEPT !.has_cond_failed = TRUE, !.cond_failed = location]

\* The terminals and instructions the front-end hands over; the last
\* instruction comes with fewer arguments than its opcode takes.
BlockTerminals ==
    << Invalid, ReturnToDispatch, LinkBlock(LocA), PopRSBHint,
       If(EQ, LinkBlock(LocA), ReturnToDispatch) >>

NewInsts ==
    << <<"GetZFlag", << >> >>, <<"SetNFlag", <<1>> >>, <<"LogicalShiftLeft", <<1, 2, 0>> >>,
       <<"LogicalShiftLeft", <<1, 2>> >> >>

\* the cycle counts the front-end writes
BlockCycleCounts == {0, 3}

BlockIdle ==
    UNCHANGED <<mem, cursor, block_descriptors, patch_information, emitLog,
                last, unpatchedSites, invalidated, clearedSites, nOps,
                pc, jit_state, ran, condIn, condOut, opOut, excl, debug_asserts>>

CallAppendNewInst ==
    /\ ~aborted
    /\ Len(ir_block.instructions) < MaxInsts
    /\ \E i \in 1..Len(NewInsts) :
          LET r == AppendNewInst(ir_block, NewInsts[i][1], NewInsts[i][2], debug_asserts)
          IN  /\ ir_block' = r.block
              /\ aborted' = ~r.ok
              /\ opIn' = [op |-> "AppendNewInst", arg |-> NewInsts[i], before |-> ir_block]
    /\ BlockIdle

CallSetTerminal ==
    /\ ~aborted
    /\ \E i \in 1..Len(BlockTerminals) :
          LET r == SetTerminal(ir_block, BlockTerminals[i])
          IN  /\ ir_block' = r.block
              /\ aborted' = ~r.ok
              /\ opIn' = [op |-> "SetTerminal", arg |-> BlockTerminals[i], before |-> ir_block]
    /\ BlockIdle

CallSetCondition ==
    /\ ~aborted
    /\ \E condition \in {EQ, AL} :
          /\ ir_block' = SetCondition(ir_block, condition)
          /\ opIn' = [op |-> "SetCondition", arg |-> condition, before |-> ir_block]
    /\ UNCHANGED aborted
    /\ BlockIdle

CallSetConditionFailedLocation ==
    /\ ~aborted
    /\ \E location \in {LocA, LocB} :
          /\ ir_block' = SetConditionFailedLocation(ir_block, location)
          /\ opIn' = [op |-> "SetConditionFailedLocation", arg |-> location, before |-> ir_block]
    /\ UNCHANGED aborted
    /\ BlockIdle

CallInstructionsErase ==
    /\ ~aborted
    /\ \E k \in 1..Len(ir_block.instructions) :
          /\ ir_block' = InstructionsErase(ir_block, k)
          /\ opIn' = [op |-> "Instructions", arg |-> k, before |-> ir_block]
    /\ UNCHANGED aborted
    /\ BlockIdle

CallCycleCount ==
    /\ ~aborted
    /\ \E n \in BlockCycleCounts :
          /\ ir_block' = SetCycleCount(ir_block, n)
          /\ opIn' = [op |-> "CycleCount", arg |-> n, before |-> ir_block]
    /\ UNCHANGED aborted
    /\ BlockIdle

CallConditionFailedCycleCount ==
    /\ ~aborted
    /\ \E n \in BlockCycleCounts :
          /\ ir_block' = SetConditionFailedCycleCount(ir_block, n)
          /\ opIn' = [op |-> "ConditionFailedCycleCount", arg |-> n, before |-> ir_block]
    /\ UNCHANGED aborted
    /\ BlockIdle

InitBlock ==
    /\ OthersIdle
    /\ opIn = NoOpIn
    /\ opOut = NoOpOut
    /\ excl = Excl0
    /\ ir_block \in {NewBlock(location) : location \in {LocA, LocB}}
    /\ debug_asserts \in BOOLEAN

NextBlock ==
    \/ CallAppendNewInst
    \/ CallSetTerminal
    \/ CallSetCondition
    \/ CallSetConditionFailedLocation
    \/ CallInstructionsErase
    \/ CallCycleCount
    \/ CallConditionFailedCycleCount

SpecBlock == InitBlock /\ [][NextBlock]_vars

(***************************************************************************)
(* Vocabulary of the properties.                                           *)
(***************************************************************************)
\* The byte budget of a patch site, by kind.
Budget(kind) ==
    CASE kind = "jg" -> 6
      [] kind = "jmp" -> 13
      [] OTHER -> 10

\* One whole instruction `op` sits at address a of m.
IsIns(m, a, op) ==
    /\ a + InsSize(op) - 1 <= Len(m)
    /\ m[a][1] = op
    /\ \A k \in 1..(InsSize(op) - 1) : m[a + k] = Cont

Nops(m, a, n) == \A k \in 0..(n - 1) : m[a + k] = Nop

\* Site s = <<kind, address, hash>> holds exactly one instruction sequence
\* of its kind, padded to its budget, and an instruction starts right after.
WellFormedSite(m, s) ==
    /\ s[2] + Budget(s[1]) - 1 <= Len(m)
    /\ CASE s[1] = "jg" -> IsIns(m, s[2], "JG") \/ Nops(m, s[2], 6)
         [] s[1] = "jmp" ->
               \/ IsIns(m, s[2], "JMP") /\ Nops(m, s[2] + 5, 8)
               \/ IsIns(m, s[2], "MOV_PC") /\ IsIns(m, s[2] + 8, "JMP")
         [] OTHER -> IsIns(m, s[2], "MOV_RCX")
    /\ s[2] + Budget(s[1]) <= Len(m) => m[s[2] + Budget(s[1])] # Cont

\* Site s transfers to (or loads) the entry pointer p.
SiteTargets(m, s, p) ==
    CASE s[1] = "jg" -> IsIns(m, s[2], "JG") /\ m[s[2]][2] = p
      [] s[1] = "jmp" -> IsIns(m, s[2], "JMP") /\ m[s[2]][2] = p
      [] OTHER -> IsIns(m, s[2], "MOV_RCX") /\ m[s[2]][2] = p

\* Site s is in the form a null target gives it.
NullForm(m, s) ==
    CASE s[1] = "jg" -> Nops(m, s[2], 6)
      [] s[1] = "jmp" ->
            /\ IsIns(m, s[2], "MOV_PC") /\ m[s[2]][2] = s[3][2]
            /\ IsIns(m, s[2] + 8, "JMP") /\ m[s[2] + 8][2] = ReturnFromRunCodeAddress
      [] OTHER -> IsIns(m, s[2], "MOV_RCX") /\ m[s[2]][2] = ReturnFromRunCodeAddress

\* The sites recorded in pi that lie inside the code of emission e.
SitesIn(pi, e) ==
    {s \in SitesOf(pi) : s[2] >= e.desc.code_ptr
                         /\ s[2] < e.desc.code_ptr + e.desc.size}

\* Guest states a block for location loc may be entered with.
GuestStates(loc) ==
    {[JitState0 EXCEPT !.Reg["PC"] = loc.pc,
                       !.Cpsr = LocCpsr(loc) \cup f,
                       !.FPSCR_mode = loc.fpscr,
                       !.cycles_remaining = c,
                       !.halt_requested = hr] :
        f \in SUBSET {ZBit, CBit}, c \in 0..(MaxCycles + 1), hr \in {0, 1}}

LastEmit == emitLog[Len(emitLog)]

(***************************************************************************)
(* C1: every rewrite of a recorded patch site stays inside the site's      *)
(* budget (6 bytes JG, 13 bytes JMP, 10 bytes MOV RCX): a step changes     *)
(* bytes of the existing buffer only inside sites recorded for the hash    *)
(* being patched, and afterwards every recorded site holds exactly one     *)
(* instruction sequence of its kind padded to the budget, for an entry     *)
(* target as for a null one.                                               *)
(***************************************************************************)
C1_RewriteKeepsBudget ==
    [][ /\ \A a \in 1..Len(mem) :
              mem'[a] # mem[a] =>
                  \E s \in SitesOf(patch_information') :
                      /\ s[3] = last'.h
                      /\ a >= s[2]
                      /\ a < s[2] + Budget(s[1])
        /\ \A s \in SitesOf(patch_information') : WellFormedSite(mem', s) ]_vars

\* Unpatch has just rewritten a linked JG site to its null form while a
\* JMP site of another block is linked to an entry.
C1_Witness ==
    /\ last.op = "Unpatch"
    /\ last.h \in DOMAIN block_descriptors
    /\ \E s \in unpatchedSites : s[1] = "jg" /\ s[3] = last.h
    /\ \E s \in SitesOf(patch_information) :
          s[1] = "jmp" /\ IsIns(mem, s[2], "JMP")

(***************************************************************************)
(* C2: when Emit(block) has returned, GetBasicBlock(block.Location()) is   *)
(* the returned descriptor, whose entry is the aligned start and whose     *)
(* size is the bytes emitted; every site recorded for the location's hash  *)
(* targets the new entry; the cursor is at the end of the block; and an    *)
(* earlier block ending in LinkBlock to this location, run with cycles     *)
(* left, reaches the new entry directly.                                   *)
(***************************************************************************)
C2_EmitRegistersAndLinks ==
    (last.op = "Emit" /\ ~aborted) =>
        /\ HasBasicBlock(block_descriptors, Blocks[last.b].location)
        /\ GetBasicBlock(block_descriptors, Blocks[last.b].location) = LastEmit.desc
        /\ LastEmit.desc.code_ptr % AlignSize = 0
        /\ LastEmit.desc.code_ptr >= LastEmit.from
        /\ LastEmit.desc.code_ptr - LastEmit.from < AlignSize
        /\ LastEmit.desc.size = cursor - LastEmit.desc.code_ptr
        /\ LastEmit.desc.size > 0
        /\ cursor = Len(mem) + 1
        /\ \A s \in SitesOf(patch_information) :
              s[3] = last.h => SiteTargets(mem, s, LastEmit.desc.code_ptr)
        /\ \A i \in 1..Len(emitLog) :
              ( /\ emitLog[i].ok
                /\ Blocks[emitLog[i].b].terminal.kind = "LinkBlock"
                /\ UniqueHash(Blocks[emitLog[i].b].terminal.next) = last.h
                /\ \E s \in SitesIn(patch_information, emitLog[i]) : s[3] = last.h )
              => \A g \in GuestStates(Blocks[emitLog[i].b].location) :
                    g.cycles_remaining > Blocks[emitLog[i].b].cycle_count
                    => Exec(mem, emitLog[i].desc.code_ptr, g, Host0).pc
                           = LastEmit.desc.code_ptr

\* Emit has just returned for a location that an earlier block links to.
C2_Witness ==
    /\ last.op = "Emit"
    /\ ~aborted
    /\ \E i \in 1..(Len(emitLog) - 1) :
          /\ emitLog[i].ok
          /\ Blocks[emitLog[i].b].terminal.kind = "LinkBlock"
          /\ UniqueHash(Blocks[emitLog[i].b].terminal.next) = last.h
          /\ \E s \in SitesIn(patch_information, emitLog[i]) :
                s[1] = "jg" /\ s[3] = last.h

(***************************************************************************)
(* C3: a recorded LinkBlock (JG) or LinkBlockFast (JMP) site whose target  *)
(* has no entry pointer - the target has no descriptor, or Unpatch rewrote *)
(* the site and the target was not emitted since - is a safe fallback:     *)
(* executed from its cycle check (JG) or from the site (JMP) with any      *)
(* cycles_remaining, it sets guest PC to the target's PC and returns to    *)
(* the dispatcher.                                                         *)
(***************************************************************************)
SiteStart(s) == IF s[1] = "jg" THEN s[2] - InsSize("CMP_CYCLES") ELSE s[2]

FallsBack(m, s, g) ==
    /\ Exec(m, SiteStart(s), g, Host0).pc = Dispatch
    /\ Exec(m, SiteStart(s), g, Host0).g.Reg["PC"] = s[3][2]

C3_UnlinkedSiteFallsBack ==
    \A s \in SitesOf(patch_information) :
        ( /\ s[1] \in {"jg", "jmp"}
          /\ (s[3] \notin DOMAIN block_descriptors \/ s \in unpatchedSites) )
        => \A c \in (0 - 1)..(MaxCycles + 1) :
              FallsBack(mem, s, [JitState0 EXCEPT !.cycles_remaining = c])

\* A JG site unpatched while its target has a descriptor, and a JMP site
\* whose target was never emitted.
C3_Witness ==
    /\ \E s \in unpatchedSites :
          s[1] = "jg" /\ s[3] \in DOMAIN block_descriptors
                      /\ s \in SitesOf(patch_information)
    /\ \E s \in SitesOf(patch_information) :
          s[1] = "jmp" /\ s[3] \notin DOMAIN block_descriptors

\* A step in which emitted code ran from pc until it left its block.
ExecStep ==
    /\ pc # Dispatch
    /\ pc # Trap
    /\ jit_state'.halt_requested = jit_state.halt_requested

\* Emission e is the code control is in.
Entered(e) == e.ok /\ e.desc.code_ptr = pc

\* The site of kind `kind` in emission e for hash h is recorded and linked:
\* h has a descriptor and the site was not unpatched since h was emitted.
LinkedSite(e, kind, h) ==
    /\ h \in DOMAIN block_descriptors
    /\ \E s \in SitesIn(patch_information, e) :
          s[1] = kind /\ s[3] = h /\ s \notin unpatchedSites

\* CPSR after the T and E adjustment of a link from location `from` to `to`.
LinkCpsr(cpsr, from, to) ==
    ((cpsr \ (IF to.T # from.T THEN {TBit} ELSE {}))
           \ (IF to.E # from.E THEN {EBit} ELSE {}))
    \cup (IF to.T # from.T /\ to.T THEN {TBit} ELSE {})
    \cup (IF to.E # from.E /\ to.E THEN {EBit} ELSE {})

\* The ARM meaning of a condition code on the N, Z, C, V bits of cpsr.
ArmCondHolds(cond, cpsr) ==
    CASE cond = EQ -> ZBit \in cpsr
      [] cond = NE -> ZBit \notin cpsr
      [] cond = CS -> CBit \in cpsr
      [] cond = CC -> CBit \notin cpsr
      [] cond = MI -> NBit \in cpsr
      [] cond = PL -> NBit \notin cpsr
      [] cond = VS -> VBit \in cpsr
      [] cond = VC -> VBit \notin cpsr
      [] cond = HI -> CBit \in cpsr /\ ZBit \notin cpsr
      [] cond = LS -> ~(CBit \in cpsr /\ ZBit \notin cpsr)
      [] cond = GE -> (NBit \in cpsr) = (VBit \in cpsr)
      [] cond = LT -> (NBit \in cpsr) # (VBit \in cpsr)
      [] cond = GT -> ZBit \notin cpsr /\ (NBit \in cpsr) = (VBit \in cpsr)
      [] cond = LE -> ~(ZBit \notin cpsr /\ (NBit \in cpsr) = (VBit \in cpsr))
      [] OTHER -> TRUE

\* The outcome of LinkBlock(next) from block e when `after` cycles remain.
LinkBlockOutcome(e, next, after) ==
    /\ (after > 0 /\ LinkedSite(e, "jg", UniqueHash(next)))
          => pc' = block_descriptors[UniqueHash(next)].code_ptr
    /\ (after <= 0 \/ UniqueHash(next) \notin DOMAIN block_descriptors)
          => pc' = Dispatch /\ jit_state'.Reg["PC"] = next.pc

(***************************************************************************)
(* C4: a block ending in LinkBlock(next) subtracts its cycle count from    *)
(* cycles_remaining first; it goes directly to next's entry only if the    *)
(* result is greater than 0, and with a result of 0 or less it sets guest  *)
(* PC to next.pc and returns to the dispatcher, linked or not.             *)
(***************************************************************************)
C4_LinkBlockChecksCycles ==
    [][ \A i \in 1..Len(emitLog) :
          ( /\ ExecStep
            /\ Entered(emitLog[i])
            /\ Blocks[emitLog[i].b].cond = AL
            /\ Blocks[emitLog[i].b].terminal.kind = "LinkBlock" )
          => /\ jit_state'.cycles_remaining =
                    jit_state.cycles_remaining - Blocks[emitLog[i].b].cycle_count
             /\ LinkBlockOutcome(emitLog[i], Blocks[emitLog[i].b].terminal.next,
                                 jit_state'.cycles_remaining) ]_vars

\* A LinkBlock block whose target is compiled and linked ran out of cycles
\* and returned to the dispatcher with the target's PC.
C4_Witness ==
    /\ pc = Dispatch
    /\ jit_state.cycles_remaining <= 0
    /\ \E i \in 1..Len(emitLog) :
          /\ emitLog[i].ok
          /\ ran.from = emitLog[i].desc.code_ptr
          /\ Blocks[emitLog[i].b].terminal.kind = "LinkBlock"
          /\ LinkedSite(emitLog[i], "jg",
                        UniqueHash(Blocks[emitLog[i].b].terminal.next))
          /\ jit_state.Reg["PC"] = Blocks[emitLog[i].b].terminal.next.pc

(***************************************************************************)
(* C5 as stated: after Unpatch(h) and until h is emitted again, no emitted *)
(* block, entered with any guest state, transfers control directly to the  *)
(* invalidated entry.                                                      *)
(***************************************************************************)
C5_NoTransferToInvalidated ==
    \A v \in invalidated : \A i \in 1..Len(emitLog) :
        emitLog[i].ok =>
            \A g \in GuestStates(Blocks[emitLog[i].b].location) :
                Exec(mem, emitLog[i].desc.code_ptr, g, Host0).pc # v[2]

(***************************************************************************)
(* C5 amended: Unpatch(h) puts every site recorded for h at the time of    *)
(* the call into its null-target form, and the site keeps that form until  *)
(* a block for h is emitted again.                                         *)
(***************************************************************************)
C5_UnpatchedSitesStayNull ==
    \A s \in unpatchedSites : NullForm(mem, s)

\* Unpatch has rewritten a linked JMP site and a linked MOV RCX site of a
\* block that has a descriptor.
C5_Witness ==
    /\ \E s \in unpatchedSites : s[1] = "jmp" /\ s[3] \in DOMAIN block_descriptors
    /\ \E s \in unpatchedSites : s[1] = "mov_rcx" /\ s[3] \in DOMAIN block_descriptors

(***************************************************************************)
(* C6: ClearCache leaves the descriptor mapping and the patch information  *)
(* empty, so GetBasicBlock finds no block for any location; a block        *)
(* emitted right after it gets the fallback at every site that links to    *)
(* another location; and no later step changes a byte of a site that was   *)
(* recorded when ClearCache ran.                                           *)
(***************************************************************************)
C6_ClearCacheDropsAll ==
    [][ /\ (last'.op = "ClearCache" /\ nOps' # nOps) =>
              /\ block_descriptors' = EmptyMap
              /\ patch_information' = EmptyMap
              /\ \A i \in 1..Len(Locs) : ~HasBasicBlock(block_descriptors', Locs[i])
        /\ (last.op = "ClearCache" /\ last'.op = "Emit" /\ ~aborted') =>
              \A s \in SitesOf(patch_information') :
                  s[3] # last'.h => NullForm(mem', s)
        /\ \A s \in clearedSites : \A k \in 0..(Budget(s[1]) - 1) :
              mem'[s[2] + k] = mem[s[2] + k] ]_vars

\* After a ClearCache that dropped recorded sites, a block was emitted that
\* links to a location emitted before the clear.
C6_Witness ==
    /\ last.op = "Emit"
    /\ ~aborted
    /\ clearedSites # {}
    /\ DOMAIN block_descriptors = {last.h}
    /\ \E s \in SitesOf(patch_information) : \E i \in 1..(Len(emitLog) - 1) :
          /\ s[3] # last.h
          /\ emitLog[i].ok
          /\ UniqueHash(Blocks[emitLog[i].b].location) = s[3]

(***************************************************************************)
(* C7: when a block ending in CheckHalt(else) runs its terminal with the   *)
(* halt-request byte non-zero, it returns to the dispatcher and nothing of *)
(* else happens (CPSR and guest PC are as they were); with the byte zero   *)
(* the outcome is that of else, here LinkBlockFast(next): the CPSR         *)
(* adjustment, then next's entry if the site is linked, otherwise guest PC *)
(* set and a return to the dispatcher.                                     *)
(***************************************************************************)
C7_CheckHalt ==
    [][ \A i \in 1..Len(emitLog) :
          ( /\ ExecStep
            /\ Entered(emitLog[i])
            /\ Blocks[emitLog[i].b].terminal.kind = "CheckHalt"
            /\ Blocks[emitLog[i].b].terminal.else_.kind = "LinkBlockFast"
            /\ ArmCondHolds(Blocks[emitLog[i].b].cond, jit_state.Cpsr) )
          => IF jit_state.halt_requested # 0
             THEN /\ pc' = Dispatch
                  /\ jit_state'.Cpsr = jit_state.Cpsr
                  /\ jit_state'.Reg["PC"] = jit_state.Reg["PC"]
             ELSE /\ jit_state'.Cpsr =
                        LinkCpsr(jit_state.Cpsr, Blocks[emitLog[i].b].location,
                                 Blocks[emitLog[i].b].terminal.else_.next)
                  /\ IF LinkedSite(emitLog[i], "jmp",
                            UniqueHash(Blocks[emitLog[i].b].terminal.else_.next))
                     THEN /\ pc' = block_descriptors[UniqueHash(
                                Blocks[emitLog[i].b].terminal.else_.next)].code_ptr
                          /\ jit_state'.Reg["PC"] = jit_state.Reg["PC"]
                     ELSE /\ pc' = Dispatch
                          /\ jit_state'.Reg["PC"] =
                                Blocks[emitLog[i].b].terminal.else_.next.pc ]_vars

\* A CheckHalt block whose else is linked ran with a halt requested and
\* returned to the dispatcher.
C7_Witness ==
    /\ pc = Dispatch
    /\ ran.g.halt_requested # 0
    /\ \E i \in 1..Len(emitLog) :
          /\ emitLog[i].ok
          /\ ran.from = emitLog[i].desc.code_ptr
          /\ Blocks[emitLog[i].b].terminal.kind = "CheckHalt"
          /\ ArmCondHolds(Blocks[emitLog[i].b].cond, ran.g.Cpsr)
          /\ LinkedSite(emitLog[i], "jmp",
                        UniqueHash(Blocks[emitLog[i].b].terminal.else_.next))

(***************************************************************************)
(* C8: for the 14 condition codes EQ..LE and every CPSR value, the emitted *)
(* condition code reaches the pass label exactly when the ARM condition    *)
(* holds on N, Z, C, V; for AL and NV the evaluator asserts.               *)
(***************************************************************************)
C8_CondEvaluator ==
    condOut # "none" =>
        IF condIn[1] \in {AL, NV} THEN condOut = "assert"
        ELSE condOut = (IF ArmCondHolds(condIn[1], condIn[2]) THEN "pass" ELSE "fail")

\* GT evaluated on a CPSR with N and V set and Z clear passes.
C8_Witness ==
    /\ condOut = "pass"
    /\ condIn[1] = GT
    /\ condIn[2] = {NBit, VBit}

(***************************************************************************)
(* C9: Emit asserts that an AL block has no condition-failed location and  *)
(* a non-AL block has one, and emits no prelude for an AL block.  When a   *)
(* non-AL block runs and its condition fails, no IR instruction of the     *)
(* block takes effect, cycles_remaining drops by exactly the               *)
(* condition-failed cycle count, and control continues as                  *)
(* LinkBlock(condition-failed location); when it passes, the body runs and *)
(* exactly the block's cycle count is subtracted.                          *)
(***************************************************************************)
C9_EmitContract ==
    \A i \in 1..Len(emitLog) :
        /\ (Blocks[emitLog[i].b].cond = AL /\ Blocks[emitLog[i].b].has_cond_failed)
              => ~emitLog[i].ok
        /\ (Blocks[emitLog[i].b].cond # AL /\ ~Blocks[emitLog[i].b].has_cond_failed)
              => ~emitLog[i].ok
        /\ (emitLog[i].ok /\ Blocks[emitLog[i].b].cond = AL)
              => emitLog[i].marks[1] = emitLog[i].desc.code_ptr
        /\ (emitLog[i].ok /\ Blocks[emitLog[i].b].cond # AL)
              => emitLog[i].marks[1] > emitLog[i].desc.code_ptr

C9_FailPath(e, block) ==
    /\ jit_state'.Reg["R0"] = jit_state.Reg["R0"]
    /\ jit_state'.rsb_ptr = jit_state.rsb_ptr
    /\ jit_state'.rsb_location_descriptors = jit_state.rsb_location_descriptors
    /\ jit_state'.rsb_codeptrs = jit_state.rsb_codeptrs
    /\ jit_state'.cycles_remaining =
           jit_state.cycles_remaining - block.cond_failed_cycle_count
    /\ jit_state'.Cpsr = LinkCpsr(jit_state.Cpsr, block.location, block.cond_failed)
    /\ LinkBlockOutcome(e, block.cond_failed, jit_state'.cycles_remaining)

C9_PassPath(e, block) ==
    /\ jit_state'.cycles_remaining = jit_state.cycles_remaining - block.cycle_count
    /\ \A j \in 1..Len(block.insts) :
          block.insts[j].op = "SetRegister"
              => jit_state'.Reg[block.insts[j].arg[1]] = block.insts[j].arg[2]

C9_RunStep ==
    \A i \in 1..Len(emitLog) :
        (ExecStep /\ Entered(emitLog[i]) /\ Blocks[emitLog[i].b].cond # AL)
        => IF ArmCondHolds(Blocks[emitLog[i].b].cond, jit_state.Cpsr)
           THEN C9_PassPath(emitLog[i], Blocks[emitLog[i].b])
           ELSE C9_FailPath(emitLog[i], Blocks[emitLog[i].b])

C9_CondPrelude == []C9_EmitContract /\ [][C9_RunStep]_vars

\* A conditional block ran with its condition false and went on directly
\* to the linked block of its condition-failed location.
C9_Witness ==
    \E i \in 1..Len(emitLog) :
        /\ emitLog[i].ok
        /\ ran.from = emitLog[i].desc.code_ptr
        /\ Blocks[emitLog[i].b].cond # AL
        /\ ~ArmCondHolds(Blocks[emitLog[i].b].cond, ran.g.Cpsr)
        /\ HasBasicBlock(block_descriptors, Blocks[emitLog[i].b].cond_failed)
        /\ pc = GetBasicBlock(block_descriptors,
                              Blocks[emitLog[i].b].cond_failed).code_ptr
        /\ jit_state.cycles_remaining =
               ran.g.cycles_remaining - Blocks[emitLog[i].b].cond_failed_cycle_count

(***************************************************************************)
(* C10: when the instruction loop of Emit reaches a GetCarryFromOp,        *)
(* GetOverflowFromOp or GetGEFromOp that its producer did not consume,     *)
(* the emission ends in a fatal assertion failure, no descriptor is        *)
(* returned and block_descriptors stays as it was.                         *)
(***************************************************************************)
PseudoOps == {"GetCarryFromOp", "GetOverflowFromOp", "GetGEFromOp"}

\* The pseudo-operations the emit rule of a producing opcode consumes.
Consumes(op) ==
    IF op = "AddWithCarry" THEN {"GetCarryFromOp", "GetOverflowFromOp"} ELSE {}

HasStandalonePseudoOp(block) ==
    \E j \in 1..Len(block.insts) : \E k \in 1..Len(block.insts) :
        /\ block.insts[j].op \in PseudoOps
        /\ block.insts[k].id = block.insts[j].arg
        /\ block.insts[j].op \notin Consumes(block.insts[k].op)

C10_StandalonePseudoOpAsserts ==
    [][ (last'.op = "Emit" /\ nOps' # nOps) =>
          IF HasStandalonePseudoOp(Blocks[last'.b])
          THEN /\ aborted'
               /\ block_descriptors' = block_descriptors
               /\ emitLog'[Len(emitLog')].desc = NoDesc
          ELSE (Blocks[last'.b].cond = AL /\ ~Blocks[last'.b].has_cond_failed)
                   => ~aborted' ]_vars

\* Emit of a block with an unconsumed GetGEFromOp has aborted while other
\* blocks are registered.
C10_Witness ==
    /\ aborted
    /\ last.op = "Emit"
    /\ \E j \in 1..Len(Blocks[last.b].insts) :
          Blocks[last.b].insts[j].op = "GetGEFromOp"
    /\ block_descriptors # EmptyMap

(***************************************************************************)
(* C11: for every value v, shift amount s in 0..255 and carry-in c, the    *)
(* code emitted for LSL, LSR, ASR and ROR with an attached GetCarryFromOp  *)
(* leaves the ARM result and carry-out, in the immediate and the register  *)
(* form of the shift amount.                                               *)
(***************************************************************************)
ArmBit(v, i) == IF i \in v THEN 1 ELSE 0

ArmLSL(v, s, c) ==
    IF s = 0 THEN <<v, c>>
    ELSE IF s <= 32 THEN <<{i \in WordBits : i - s \in v}, ArmBit(v, 32 - s)>>
    ELSE <<{}, 0>>

ArmLSR(v, s, c) ==
    IF s = 0 THEN <<v, c>>
    ELSE IF s <= 32 THEN <<{i \in WordBits : i + s \in v}, ArmBit(v, s - 1)>>
    ELSE <<{}, 0>>

ArmASR(v, s, c) ==
    IF s = 0 THEN <<v, c>>
    ELSE IF s < 32
    THEN <<{i \in WordBits : (IF i + s <= 31 THEN i + s ELSE 31) \in v}, ArmBit(v, s - 1)>>
    ELSE <<IF 31 \in v THEN WordBits ELSE {}, ArmBit(v, 31)>>

ArmROR(v, s, c) ==
    IF s = 0 THEN <<v, c>>
    ELSE <<{i \in WordBits : ((i + s) % 32) \in v}, ArmBit(v, (31 + s) % 32)>>

ArmShift(op, v, s, c) ==
    CASE op = "LogicalShiftLeft" -> ArmLSL(v, s, c)
      [] op = "LogicalShiftRight" -> ArmLSR(v, s, c)
      [] op = "ArithmeticShiftRight" -> ArmASR(v, s, c)
      [] OTHER -> ArmROR(v, s, c)

C11_ShiftsMatchArm ==
    (opOut.done /\ opIn.op \in ShiftOps) =>
        <<opOut.result, opOut.carry>> = ArmShift(opIn.op, opIn.a, opIn.s, opIn.c)

\* A register-form LSL by 32 of a value with bit 0 set has run: result 0,
\* carry 1.
C11_Witness ==
    /\ opOut.done
    /\ opIn.op = "LogicalShiftLeft"
    /\ opIn.form = "reg"
    /\ opIn.s = 32
    /\ opIn.a = W(57005, 48879)
    /\ opIn.c = 0
    /\ opOut.result = {}
    /\ opOut.carry = 1

\* ARM AddWithCarry(x, y, c): <<result, carry, overflow>>, computed on the
\* 16-bit halves; overflow is a signed sum outside [-2^31, 2^31 - 1], which
\* is operands of one sign and a result of the other.
ArmLowSum(x, y, c) == Low(x, 16) + Low(y, 16) + c
ArmHighSum(x, y, c) == Hi16(x) + Hi16(y) + (ArmLowSum(x, y, c) \div 65536)
ArmSum(x, y, c) == W(ArmHighSum(x, y, c) % 65536, ArmLowSum(x, y, c) % 65536)
ArmAddWithCarry(x, y, c) ==
    << ArmSum(x, y, c),
       ArmHighSum(x, y, c) \div 65536,
       IF ((31 \in x) = (31 \in y)) /\ ((31 \in ArmSum(x, y, c)) # (31 \in x)) THEN 1 ELSE 0 >>

\* C12: in every operand form add_with_carry leaves (a + b + cin) mod 2^32
\* as its result, carry 1 iff a + b + cin >= 2^32 and overflow 1 iff the
\* signed sum is outside the 32-bit signed range.
C12_AddWithCarry ==
    (opOut.done /\ opIn.op = "AddWithCarry")
        => <<opOut.result, opOut.carry, opOut.overflow>> = ArmAddWithCarry(opIn.a, opIn.b, opIn.c)

\* 0x7FFFFFFF + 1 + 0 with b an immediate and the carry-in in a register
C12_Witness ==
    /\ opOut.done
    /\ opIn.op = "AddWithCarry" /\ opIn.form = "imm_reg"
    /\ opIn.a = W(32767, 65535) /\ opIn.b = W(0, 1) /\ opIn.c = 0
    /\ opOut.result = W(32768, 0) /\ opOut.carry = 0 /\ opOut.overflow = 1

\* C13: in every operand form sub_with_carry leaves (a + NOT(b) + cin) mod
\* 2^32 as its result and the ARM carry as its carry: 1 iff no borrow
\* occurred, a >= b + (1 - cin) as unsigned integers.
C13_SubWithCarry ==
    (opOut.done /\ opIn.op = "SubWithCarry")
        => /\ opOut.result = ArmAddWithCarry(opIn.a, NotBits(opIn.b, 32), opIn.c)[1]
           /\ opOut.carry = ArmAddWithCarry(opIn.a, NotBits(opIn.b, 32), opIn.c)[2]
           /\ (opOut.carry = 1) <=>
                 \/ Hi16(opIn.a) > Hi16(opIn.b)
                 \/ Hi16(opIn.a) = Hi16(opIn.b) /\ Low(opIn.a, 16) >= Low(opIn.b, 16) + (1 - opIn.c)

\* 1 - 1 with carry-in 0 is 0xFFFFFFFF with a borrow: carry 0
C13_Witness ==
    /\ opOut.done
    /\ opIn.op = "SubWithCarry" /\ opIn.form = "reg_reg"
    /\ opIn.a = W(0, 1) /\ opIn.b = W(0, 1) /\ opIn.c = 0
    /\ opOut.result = W(65535, 65535) /\ opOut.carry = 0

\* A word as a signed number, and a signed number as a word
SignedOf(v) == Low(v, 16) + 65536 * (Hi16(v) - (IF 31 \in v THEN 65536 ELSE 0))
WordOfSigned(x) == IF x >= 0 THEN W(x \div 65536, x % 65536) ELSE NotBits(W((-x - 1) \div 65536, (-x - 1) % 65536), 32)

\* ARM SignedSatQ(a, N): <<the clamped word, whether a was out of range>>
ArmSignedSatQ(v, N) ==
    IF N = 32 THEN <<v, 0>>
    ELSE IF SignedOf(v) > (2 ^ (N - 1)) - 1 THEN <<WordOfSigned((2 ^ (N - 1)) - 1), 1>>
    ELSE IF SignedOf(v) < -(2 ^ (N - 1)) THEN <<WordOfSigned(-(2 ^ (N - 1))), 1>>
    ELSE <<v, 0>>

\* C14: signed_saturation(a, N), N in 1..32, leaves a clamped to
\* [-2^(N-1), 2^(N-1) - 1] and an overflow that is true iff a was outside
\* that range; for N = 32 the result is a and the overflow is false.
C14_SignedSaturation ==
    (opOut.done /\ opIn.op = "SignedSaturation")
        => /\ <<opOut.result, opOut.overflow>> = ArmSignedSatQ(opIn.a, opIn.s)
           /\ opIn.s = 32 => (opOut.result = opIn.a /\ opOut.overflow = 0)

\* -129 saturated to 8 bits is -128 with overflow
C14_Witness ==
    /\ opOut.done
    /\ opIn.op = "SignedSaturation" /\ opIn.s = 8
    /\ opIn.a = W(65535, 65407)
    /\ opOut.result = W(65535, 65408) /\ opOut.overflow = 1

\* Lane k (from 0) of width w (8 or 16) of a word, unsigned and signed
LaneOf(v, k, w) == BitsToInt(ShrBits({b \in v : b < w * k + w}, w * k))
SignedLaneOf(v, k, w) == IF LaneOf(v, k, w) >= 2 ^ (w - 1) THEN LaneOf(v, k, w) - 2 ^ w ELSE LaneOf(v, k, w)
\* The word whose lanes of width w are the low w bits of f[k]
RECURSIVE WordOfLanes(_, _, _)
WordOfLanes(f, k, w) ==
    IF w * k >= 32 THEN {}
    ELSE Bits(f[k] % (2 ^ w), w * k) \cup WordOfLanes(f, k + 1, w)

\* ARM UHADD8, SHADD8 (w = 8) and SHADD16 (w = 16)
ArmUHADD(x, y, w) ==
    WordOfLanes([k \in 0..3 |-> (LaneOf(x, k, w) + LaneOf(y, k, w)) \div 2], 0, w)
ArmSHADD(x, y, w) ==
    WordOfLanes([k \in 0..3 |->
        ((SignedLaneOf(x, k, w) + SignedLaneOf(y, k, w) + 2 ^ w) \div 2) + 2 ^ (w - 1)], 0, w)

\* C15: packed_halving_add_u8 is, lane by lane, the low 8 bits of
\* (a_lane + b_lane) >> 1, and the SSSE3 path and the GPR path agree.
C15_HalvingAddU8 ==
    (opOut.done /\ opIn.op = "PackedHalvingAddU8")
        => /\ opOut.result = ArmUHADD(opIn.a, opIn.b, 8)
           /\ PackedResult(opIn.op, "ssse3", opIn) = PackedResult(opIn.op, "gpr", opIn)

\* 0x01020304 and 0x03040506 give 0x02030405 on the SSSE3 path
C15_Witness ==
    /\ opOut.done
    /\ opIn.op = "PackedHalvingAddU8" /\ opIn.form = "ssse3"
    /\ opIn.a = W(258, 772) /\ opIn.b = W(772, 1286)
    /\ opOut.result = W(515, 1029)

\* C16: packed_halving_add_s8 and packed_halving_add_s16 are the lane-wise
\* signed (a_lane + b_lane) >> 1 on four byte lanes and on two halfword
\* lanes, no bit of one lane affecting another.
C16_HalvingAddSigned ==
    /\ (opOut.done /\ opIn.op = "PackedHalvingAddS8")
          => opOut.result = ArmSHADD(opIn.a, opIn.b, 8)
    /\ (opOut.done /\ opIn.op = "PackedHalvingAddS16")
          => opOut.result = ArmSHADD(opIn.a, opIn.b, 16)

\* The byte lanes alone: packed_halving_add_s8 is the lane-wise signed
\* halving add.
C16_HalvingAddS8 ==
    (opOut.done /\ opIn.op = "PackedHalvingAddS8")
        => opOut.result = ArmSHADD(opIn.a, opIn.b, 8)

\* packed_halving_add_s16 of 0x00000080 and 0 has run: 0x000000C0 is left
\* where the halfword lanes give 0x00000040
C16_Witness ==
    /\ opOut.done
    /\ opIn.op = "PackedHalvingAddS16"
    /\ opIn.a = W(0, 128) /\ opIn.b = {}
    /\ opOut.result = W(0, 192)
    /\ ArmSHADD(opIn.a, opIn.b, 16) = W(0, 64)

\* C17: BXWritePC(p) leaves PC = p without bit 0 and T = 1 when bit 0 of p
\* is set, PC = p without its low two bits and T = 0 otherwise; the other
\* CPSR bits are unchanged, and the immediate and the register path leave
\* the same PC and CPSR.
C17_BXWritePC ==
    (opOut.done /\ opIn.op = "BXWritePC")
        => /\ opOut.pc = (IF 0 \in opIn.a THEN opIn.a \ {0} ELSE opIn.a \ {0, 1})
           /\ (5 \in opOut.cpsr) = (0 \in opIn.a)
           /\ opOut.cpsr \ {5} = opIn.b \ {5}
           /\ BXRun("imm", opIn).PC = BXRun("reg", opIn).PC
           /\ BXRun("imm", opIn).Cpsr = BXRun("reg", opIn).Cpsr

\* p = 0x00001001 in a register with T clear: PC = 0x00001000 and T set
C17_Witness ==
    /\ opOut.done
    /\ opIn.op = "BXWritePC" /\ opIn.form = "reg"
    /\ opIn.a = W(0, 4097) /\ opIn.b = W(61440, 0)
    /\ opOut.pc = W(0, 4096) /\ opOut.cpsr = W(61440, 32)

\* The reservation granule of an address
GranuleOf(addr) == addr \cap RESERVATION_GRANULE_MASK

\* Operation j of the log set the monitor and nothing between j and i
\* touched it: no SetExclusive, no ClearExclusive, no write that passed.
SetAndHeld(log, j, i) ==
    /\ log[j].op = "SetExclusive"
    /\ \A k \in (j + 1)..(i - 1) :
          /\ log[k].op \notin {"SetExclusive", "ClearExclusive"}
          /\ log[k].passed # 0

\* The monitor covers the address of operation i when operation i runs
Reserved(log, i) ==
    \E j \in 1..(i - 1) : SetAndHeld(log, j, i) /\ GranuleOf(log[j].addr) = GranuleOf(log[i].addr)

\* The store an exclusive write commits: one call of its write callback
IsStoreOf(calls, addr) ==
    /\ Len(calls) = 1
    /\ calls[1][2] = addr
    /\ calls[1][3] = (IF calls[1][1] = "Write64"
                      THEN ExclValue \cup {b + 32 : b \in ExclValueHi}
                      ELSE {b \in ExclValue : b < WriteBits(calls[1][1])})

\* C18: an exclusive write reports 0 and commits its store exactly when the
\* monitor is set and its address is in the granule of exclusive_address;
\* a write that passed clears the monitor, so that a second write without
\* a SetExclusive in between, a write after ClearExclusive and a write to
\* another granule report 1 and store nothing.
C18_ExclusiveMonitor ==
    /\ \A i \in 1..Len(excl.log) :
          excl.log[i].op = "ExclusiveWrite" =>
             IF Reserved(excl.log, i)
             THEN excl.log[i].passed = 0 /\ IsStoreOf(excl.log[i].calls, excl.log[i].addr)
             ELSE excl.log[i].passed = 1 /\ excl.log[i].calls = <<>>
    /\ (excl.exclusive_state # {}) <=>
          \E j \in 1..Len(excl.log) : SetAndHeld(excl.log, j, Len(excl.log) + 1)
    /\ \A j \in 1..Len(excl.log) :
          SetAndHeld(excl.log, j, Len(excl.log) + 1) => excl.exclusive_address = excl.log[j].addr

\* SetExclusive(0x1000), then a write to 0x1007 that passes and stores, then
\* a second write to 0x1000 that reports 1 and stores nothing
C18_Witness ==
    /\ Len(excl.log) = 3
    /\ excl.log[1].op = "SetExclusive" /\ excl.log[1].addr = W(0, 4096)
    /\ excl.log[2].op = "ExclusiveWrite" /\ excl.log[2].addr = W(0, 4103)
    /\ excl.log[2].passed = 0 /\ Len(excl.log[2].calls) = 1
    /\ excl.log[3].op = "ExclusiveWrite" /\ excl.log[3].addr = W(0, 4096)
    /\ excl.log[3].passed = 1 /\ excl.log[3].calls = <<>>

\* The callbacks of the user (UserCallbacks and the coprocessors)
UserCallbackNames ==
    {"CallSVC", "InterpreterFallback", "callback.function",
     "Read8", "Read16", "Read32", "Read64", "Write8", "Write16", "Write32", "Write64"}

\* Whether the code ended by leaving for the host
LeftForHost(calls) == Len(calls) > 0 /\ calls[Len(calls)][1] = "ReturnFromRunCode"

\* C19: every call out to a user callback is bracketed by the MXCSR
\* switches: MXCSR holds the host value whenever a user callback runs, and
\* the guest value when the emitted code goes on after the call.
C19_CallbacksBracketed ==
    (opOut.done /\ opIn.op \in CalloutOps /\ opOut.ok)
        => /\ \A i \in 1..Len(opOut.calls) :
                 opOut.calls[i][1] \in UserCallbackNames => opOut.calls[i][2] = "host"
           /\ ~LeftForHost(opOut.calls) => opOut.mxcsr = "guest"

\* A 32-bit write with no page table has run: Write32 was called with the
\* guest's MXCSR in place
C19_Witness ==
    /\ opOut.done
    /\ opIn.op = "WriteMemory" /\ opIn.form = "callback" /\ opIn.s = 32
    /\ opOut.calls = << <<"Write32", "guest">> >>

\* The supervisor call alone is bracketed.
C19_SupervisorBracketed ==
    (opOut.done /\ opIn.op = "CallSupervisor")
        => opOut.calls = << <<"CallSVC", "host">> >> /\ opOut.mxcsr = "guest"

\* C20: when a coprocessor instruction names an unmapped coprocessor, or
\* the coprocessor compiles it to no action, emission still completes (the
\* fault is left to the emitted code).
C20_CoprocFaultAtRunTime ==
    (opOut.done /\ opIn.op \in CoprocOps /\ opIn.form \in {"unmapped", "none"})
        => opOut.ok

\* CoprocSendOneWord on an unmapped coprocessor: emission was aborted
C20_Witness ==
    /\ opOut.done
    /\ opIn.op = "CoprocSendOneWord" /\ opIn.form = "unmapped"
    /\ ~opOut.ok

(***************************************************************************)
(* C21.                                                                    *)
(***************************************************************************)
RECURSIVE LinkedTerminal(_)
LinkedTerminal(t) ==
    CASE t.kind \in {"LinkBlock", "ReturnToDispatch"} -> TRUE
      [] t.kind = "If" -> LinkedTerminal(t.then_) /\ LinkedTerminal(t.else_)
      [] t.kind = "CheckHalt" -> LinkedTerminal(t.else_)
      [] OTHER -> FALSE

LinkedCache == {LinkedBlocks[emitLog[i].b] : i \in 1..Len(emitLog)}

\* every block of the cache charges at least one cycle and ends in a
\* terminal of the linked kind
CyclesCharged ==
    \A blk \in LinkedCache : blk.cycle_count >= 1 /\ LinkedTerminal(blk.terminal)

\* ... and a conditional block charges at least one cycle when its
\* condition fails
FailedCyclesCharged ==
    \A blk \in LinkedCache : blk.cond # AL => blk.cond_failed_cycle_count >= 1

CodeRunning == pc # Dispatch /\ pc # Trap

BlockRuns == ran' # ran

\* C21 as stated: when every block of the cache has a cycle count of at
\* least 1 and ends in LinkBlock, ReturnToDispatch, or If/CheckHalt over
\* those, each block that runs strictly decreases cycles_remaining, and
\* running code eventually returns to the dispatcher.
C21_LinkedBlocksReturn ==
    /\ [][(CyclesCharged /\ BlockRuns)
            => jit_state'.cycles_remaining < jit_state.cycles_remaining]_vars
    /\ (CyclesCharged /\ CodeRunning) ~> (pc = Dispatch)

\* C21 amended: the same, when in addition every conditional block has a
\* condition-failed cycle count of at least 1.
C21_ChargedBlocksReturn ==
    /\ [][(CyclesCharged /\ FailedCyclesCharged /\ BlockRuns)
            => jit_state'.cycles_remaining < jit_state.cycles_remaining]_vars
    /\ (CyclesCharged /\ FailedCyclesCharged /\ CodeRunning) ~> (pc = Dispatch)

\* a block entered through a link (the guest PC is still the one of the
\* block before it) has run and returned to the dispatcher with the cycle
\* budget used up
C21_Witness ==
    /\ CyclesCharged /\ FailedCyclesCharged
    /\ ran # NoRun
    /\ pc = Dispatch
    /\ jit_state.cycles_remaining <= 0
    /\ \E i \in 1..Len(Locs) :
          /\ HasBasicBlock(block_descriptors, Locs[i])
          /\ GetBasicBlock(block_descriptors, Locs[i]).code_ptr = ran.from
          /\ ran.g.Reg["PC"] # Locs[i].pc

(***************************************************************************)
(* C22.                                                                    *)
(***************************************************************************)
\* The pseudo-operations the emit rule of a producing opcode looks up.
ConsumedBy(op) ==
    CASE op \in ArithOpcodes -> {"GetCarryFromOp", "GetOverflowFromOp"}
      [] op \in CarryOpcodes -> {"GetCarryFromOp"}
      [] op \in OverflowProducers -> {"GetOverflowFromOp"}
      [] op \in GEOpcodes -> {"GetGEFromOp"}
      [] OTHER -> {}

\* The ids of the pseudo-operations of a block that its producers consume;
\* with only32 those attached to a SignedSaturation with N = 32, without it
\* all the others.
ConsumedIds(block, only32) ==
    {block.insts[j].id : j \in
        {j \in 1..Len(block.insts) :
            \E k \in 1..Len(block.insts) :
                /\ block.insts[j].op \in ConsumedBy(block.insts[k].op)
                /\ block.insts[k].id = block.insts[j].arg
                /\ only32 = (block.insts[k].op = "SignedSaturation"
                                /\ block.insts[k].arg = 32)}}

Remaining(e, id) == {k \in 1..Len(e.insts) : e.insts[k].id = id}

\* C22 as stated: after Emit returns, no consumed pseudo-op remains in the
\* block's instruction list, for every producing opcode and every path,
\* signed_saturation with N = 32 included.
C22_ConsumedPseudoOpsErased ==
    \A i \in 1..Len(emitLog) :
        emitLog[i].ok =>
            \A id \in ConsumedIds(ProducerBlocks[emitLog[i].b], TRUE)
                       \cup ConsumedIds(ProducerBlocks[emitLog[i].b], FALSE) :
               Remaining(emitLog[i], id) = {}

\* C22 amended: every consumed pseudo-op is erased from the list, except
\* the GetOverflowFromOp of a signed_saturation with N = 32: that one
\* stays in the list, rewritten as an Identity of the constant false, and
\* the instruction loop passes it without aborting.
C22_ConsumedPseudoOpsErasedOrReplaced ==
    \A i \in 1..Len(emitLog) :
        emitLog[i].ok =>
            /\ \A id \in ConsumedIds(ProducerBlocks[emitLog[i].b], FALSE) :
                  Remaining(emitLog[i], id) = {}
            /\ \A id \in ConsumedIds(ProducerBlocks[emitLog[i].b], TRUE) :
                  /\ Cardinality(Remaining(emitLog[i], id)) = 1
                  /\ \A k \in Remaining(emitLog[i], id) :
                        emitLog[i].insts[k] = Inst(id, "Identity", FALSE)

\* a block with a signed_saturation with N = 32 and one with N = 16, each
\* with its overflow pseudo-op, has been emitted
C22_Witness ==
    \E i \in 1..Len(emitLog) :
        /\ emitLog[i].ok
        /\ ConsumedIds(ProducerBlocks[emitLog[i].b], TRUE) # {}
        /\ ConsumedIds(ProducerBlocks[emitLog[i].b], FALSE) # {}
        /\ Len(emitLog[i].insts) = Len(ProducerBlocks[emitLog[i].b].insts) - 1

(***************************************************************************)
(* C23.                                                                    *)
(***************************************************************************)
\* The mnemonics of the code of the rule, up to the SETcc of the pseudo-ops
ArithBody(in) ==
    [i \in 1..(Len(ArithCode(in)) - Len(ArithFlags(ArithInst(in), "c"))) |->
        ArithCode(in)[i][1]]

CarryImm(in) == ArithInst(in).carry_imm

\* The carry-in is read from bit 0 of the carry register.
LoadsCarry(in) == ArithCode(in)[1] = <<"bt", R("carry"), 0>>

\* C23 as stated: an immediate carry-in of 0 gives a plain ADD and a plain
\* SUB; an immediate carry-in of 1 gives STC, ADC and STC, CMC, SBB; a
\* register carry-in gives BT cin,0 (and CMC for sub) before ADC/SBB.
C23_CarryInSelection ==
    (opOut.done /\ opIn.op \in ArithOps) =>
        ArithBody(opIn) =
            IF opIn.op = "AddWithCarry"
            THEN IF ~CarryImm(opIn) THEN <<"bt", "adc">>
                 ELSE IF opIn.c = 0 THEN <<"add">> ELSE <<"stc", "adc">>
            ELSE IF ~CarryImm(opIn) THEN <<"bt", "cmc", "sbb">>
                 ELSE IF opIn.c = 0 THEN <<"sub">> ELSE <<"stc", "cmc", "sbb">>

\* C23 amended: add_with_carry as stated; sub_with_carry emits a plain SUB
\* for an immediate carry-in of 1 (no borrow) and STC, SBB, without CMC,
\* for an immediate carry-in of 0; a register carry-in is loaded by
\* BT cin,0 (and CMC for sub) before ADC/SBB.
C23_CarryInSelectionOfSub ==
    (opOut.done /\ opIn.op \in ArithOps) =>
        /\ ArithBody(opIn) =
            IF opIn.op = "AddWithCarry"
            THEN IF ~CarryImm(opIn) THEN <<"bt", "adc">>
                 ELSE IF opIn.c = 0 THEN <<"add">> ELSE <<"stc", "adc">>
            ELSE IF ~CarryImm(opIn) THEN <<"bt", "cmc", "sbb">>
                 ELSE IF opIn.c = 1 THEN <<"sub">> ELSE <<"stc", "sbb">>
        /\ ~CarryImm(opIn) => LoadsCarry(opIn)

\* sub_with_carry with an immediate carry-in of 1 has run: 1 - 1 = 0, carry 1
C23_Witness ==
    /\ opOut.done
    /\ opIn.op = "SubWithCarry" /\ opIn.form = "reg_imm" /\ opIn.c = 1
    /\ opIn.a = W(0, 1) /\ opIn.b = W(0, 1)
    /\ ArithBody(opIn) = <<"sub">>
    /\ opOut.result = W(0, 0) /\ opOut.carry = 1

(***************************************************************************)
(* C24: or_q_flag sets CPSR bit 27 to (old Q OR argument) and leaves the   *)
(* other bits as they were, so no or_q_flag clears a Q that is 1;          *)
(* set_N/Z/C/V_flag make bit 31/30/29/28 equal to the argument and leave   *)
(* the other bits as they were; for an immediate and a register argument   *)
(* in {0, 1}.                                                              *)
(***************************************************************************)
FlagBit(op) ==
    CASE op = "SetNFlag" -> 31
      [] op = "SetZFlag" -> 30
      [] op = "SetCFlag" -> 29
      [] op = "SetVFlag" -> 28
      [] OTHER -> 27

C24_FlagWrites ==
    (opOut.done /\ opIn.op \in FlagOps) =>
        /\ opOut.cpsr \ {FlagBit(opIn.op)} = opIn.b \ {FlagBit(opIn.op)}
        /\ IF opIn.op = "OrQFlag"
           THEN /\ (27 \in opOut.cpsr) <=> (27 \in opIn.b \/ opIn.c = 1)
                /\ 27 \in opIn.b => 27 \in opOut.cpsr
           ELSE (FlagBit(opIn.op) \in opOut.cpsr) <=> (opIn.c = 1)

\* or_q_flag with a register argument of 0, in a register with bits set
\* above its low byte, has left a Q of 1 and the other bits in place
C24_Witness ==
    /\ opOut.done
    /\ opIn.op = "OrQFlag" /\ opIn.form = "reg" /\ opIn.c = 0 /\ opIn.f0
    /\ opIn.b = {0, 5, 27}
    /\ opOut.cpsr = {0, 5, 27}

(***************************************************************************)
(* C25, C26, C29: the ring of the return stack buffer.                     *)
(***************************************************************************)
\* The ring slots whose stored hash is h
SlotsOf(g, h) == {i \in 0..(RSBSize - 1) : g.rsb_location_descriptors[i] = h}

\* Emitted code runs the block of emission i, which pushes one hash.
PushRuns(i) ==
    /\ ExecStep
    /\ Entered(emitLog[i])
    /\ RsbBlocks[emitLog[i].b].insts[1].op = "PushRSB"

PushedHash(i) == RsbBlocks[emitLog[i].b].insts[1].arg.value

\* The code pointer for h, or the dispatcher return address
CodePointerFor(h) ==
    IF h \in DOMAIN block_descriptors THEN block_descriptors[h].code_ptr
    ELSE ReturnFromRunCodeAddress

\* The MOV RCX site of the push of emission i, and the pointer it holds
PushSite(i) ==
    CHOOSE s \in SitesIn(patch_information, emitLog[i]) : s[1] = "mov_rcx"

SitePointer(i) == mem[PushSite(i)[2]][2]

\* The pointer the last link of the site gave it: the entry of the block
\* for h, or the dispatcher return address when there is no block for h or
\* Unpatch(h) has rewritten the site and h has not been emitted since.
LinkedPointer(i) ==
    IF PushedHash(i) \in DOMAIN block_descriptors /\ PushSite(i) \notin unpatchedSites
    THEN block_descriptors[PushedHash(i)].code_ptr
    ELSE ReturnFromRunCodeAddress

\* The pair (h, ptr) is stored at the slot after the cursor, the cursor
\* moves there and no other slot changes.
StoredAtNextSlot(h, ptr) ==
    /\ jit_state'.rsb_ptr = (jit_state.rsb_ptr + 1) % RSBSize
    /\ jit_state'.rsb_location_descriptors[jit_state'.rsb_ptr] = h
    /\ jit_state'.rsb_codeptrs[jit_state'.rsb_ptr] = ptr
    /\ \A k \in 0..(RSBSize - 1) :
          k # jit_state'.rsb_ptr
             => /\ jit_state'.rsb_location_descriptors[k] = jit_state.rsb_location_descriptors[k]
                /\ jit_state'.rsb_codeptrs[k] = jit_state.rsb_codeptrs[k]

SlotsUnchanged ==
    /\ jit_state'.rsb_location_descriptors = jit_state.rsb_location_descriptors
    /\ jit_state'.rsb_codeptrs = jit_state.rsb_codeptrs

\* C25 as stated: every push of h advances rsb_ptr to (rsb_ptr + 1) mod
\* RSBSize; if h is in no slot the pair (h, code pointer for h or the
\* dispatcher return address when h is not compiled) is stored at the new
\* slot and no other slot changes; if h is present no slot is written.
C25_EveryPushAdvances ==
    [][ \A i \in 1..Len(emitLog) :
          PushRuns(i) =>
             /\ jit_state'.rsb_ptr = (jit_state.rsb_ptr + 1) % RSBSize
             /\ IF SlotsOf(jit_state, PushedHash(i)) = {}
                THEN StoredAtNextSlot(PushedHash(i), CodePointerFor(PushedHash(i)))
                ELSE SlotsUnchanged ]_vars

\* C25 amended: a push of a hash that is in no slot advances rsb_ptr to
\* (rsb_ptr + 1) mod RSBSize and stores there the hash with the pointer
\* the MOV RCX site of the push holds, no other slot changes; that pointer
\* is the entry of the block for the hash, or the dispatcher return
\* address when the hash has no block or Unpatch has rewritten the site
\* and the hash has not been emitted since; a push of a hash that is
\* present writes no slot and leaves rsb_ptr where it was.
C25_AbsentPushAdvances ==
    [][ \A i \in 1..Len(emitLog) :
          PushRuns(i) =>
             IF SlotsOf(jit_state, PushedHash(i)) = {}
             THEN /\ StoredAtNextSlot(PushedHash(i), SitePointer(i))
                  /\ SitePointer(i) = LinkedPointer(i)
             ELSE SlotsUnchanged /\ jit_state'.rsb_ptr = jit_state.rsb_ptr ]_vars

\* a push has wrapped the cursor from the last slot to slot 0 and stored
\* the dispatcher return address for a hash whose block exists and has been
\* unpatched
C25_Witness ==
    /\ ran # NoRun
    /\ ran.g.rsb_ptr = RSBSize - 1
    /\ jit_state.rsb_ptr = 0
    /\ jit_state.rsb_location_descriptors[0] \in DOMAIN block_descriptors
    /\ jit_state.rsb_codeptrs[0] = ReturnFromRunCodeAddress
    /\ \E s \in unpatchedSites :
          s[1] = "mov_rcx" /\ s[3] = jit_state.rsb_location_descriptors[0]
    /\ \E i \in 1..Len(emitLog) :
          /\ emitLog[i].ok
          /\ ran.from = emitLog[i].desc.code_ptr
          /\ RsbBlocks[emitLog[i].b].insts[1].op = "PushRSB"

\* Emitted code runs the block of emission i, which ends in PopRSBHint.
PopRuns(i) ==
    /\ ExecStep
    /\ Entered(emitLog[i])
    /\ RsbBlocks[emitLog[i].b].terminal.kind = "PopRSBHint"

\* The hash of the location the guest state g is at
LocationHash(g) ==
    << BitsToInt((IF TBit \in g.Cpsr THEN {5 - 2} ELSE {})
                 \cup (IF EBit \in g.Cpsr THEN {9 - 2} ELSE {})
                 \cup Bits(g.FPSCR_mode, 0)),
       g.Reg["PC"] >>

\* C26: a PopRSBHint terminal jumps to the code pointer of a ring slot only
\* if that slot's hash equals the hash of the current guest PC, CPSR.T,
\* CPSR.E and FPSCR mode; if no slot matches it jumps to the dispatcher
\* return address; it jumps nowhere else.
C26_PopJumpsToMatch ==
    [][ \A i \in 1..Len(emitLog) :
          PopRuns(i) =>
             IF SlotsOf(jit_state', LocationHash(jit_state')) = {}
             THEN pc' = Dispatch
             ELSE \E k \in SlotsOf(jit_state', LocationHash(jit_state')) :
                     pc' = Land(mem, jit_state'.rsb_codeptrs[k]) ]_vars

\* a PopRSBHint has entered the compiled block whose hash a push had stored
C26_Witness ==
    /\ ran # NoRun
    /\ pc # Dispatch /\ pc # Trap
    /\ \E i \in 1..Len(emitLog) :
          /\ emitLog[i].ok
          /\ ran.from = emitLog[i].desc.code_ptr
          /\ RsbBlocks[emitLog[i].b].terminal.kind = "PopRSBHint"
    /\ \E k \in SlotsOf(jit_state, LocationHash(jit_state)) :
          /\ pc = jit_state.rsb_codeptrs[k]
          /\ pc = block_descriptors[LocationHash(jit_state)].code_ptr

\* A hash of a location, as opposed to the value of a slot after a reset
IsLocationHash(h) == h # <<-1, -1>>

NoDuplicateHash(g) ==
    \A j, k \in 0..(RSBSize - 1) :
        ( /\ j # k
          /\ IsLocationHash(g.rsb_location_descriptors[j]) )
        => g.rsb_location_descriptors[j] # g.rsb_location_descriptors[k]

\* C29: from a ring without duplicate hashes, after any pushes rsb_ptr is
\* in 0..RSBSize-1 and no location hash is in more than one slot; a push of
\* a hash that is present changes neither rsb_ptr nor any slot, so the
\* code pointer stored with it is not refreshed.
C29_RingKeepsHashesApart ==
    /\ [](jit_state.rsb_ptr \in 0..(RSBSize - 1) /\ NoDuplicateHash(jit_state))
    /\ [][ \A i \in 1..Len(emitLog) :
             (PushRuns(i) /\ SlotsOf(jit_state, PushedHash(i)) # {})
                => /\ jit_state'.rsb_ptr = jit_state.rsb_ptr
                   /\ SlotsUnchanged ]_vars

\* the push of a hash that was in the ring with the dispatcher return
\* address has run after the block for it was compiled: the slot still
\* holds the old pointer
C29_Witness ==
    /\ ran # NoRun
    /\ pc = Dispatch
    /\ \E i \in 1..Len(emitLog) :
          /\ emitLog[i].ok
          /\ ran.from = emitLog[i].desc.code_ptr
          /\ RsbBlocks[emitLog[i].b].insts[1].op = "PushRSB"
          /\ RsbBlocks[emitLog[i].b].insts[1].arg.value \in DOMAIN block_descriptors
          /\ \E k \in SlotsOf(jit_state, RsbBlocks[emitLog[i].b].insts[1].arg.value) :
                /\ jit_state.rsb_codeptrs[k] = ReturnFromRunCodeAddress
                /\ jit_state.rsb_codeptrs[k] #
                      block_descriptors[RsbBlocks[emitLog[i].b].insts[1].arg.value].code_ptr
    /\ jit_state.rsb_ptr = ran.g.rsb_ptr

(***************************************************************************)
(* C27.                                                                    *)
(***************************************************************************)
UseCalls == {"UseGpr", "UseScratchGpr", "UseOpArg", "UseDefGpr", "HostCall"}
DefCalls == {"DefGpr"}

\* Calls i < j belong to the emission of the same instruction.
SameInstruction(calls, i, j) ==
    \A k \in i..j : calls[k] # "EndOfAllocScope"

\* C27 as stated: within the emission of one instruction every use-type
\* call precedes every def-type call, and EndOfAllocScope is called after
\* each instruction's emit rule, before the next instruction is emitted.
C27_UsesPrecedeDefs ==
    (opOut.done /\ opIn.op = "RegAlloc") =>
        /\ \A i, j \in 1..Len(opOut.calls) :
              (i < j /\ SameInstruction(opOut.calls, i, j))
                 => ~(opOut.calls[i] \in DefCalls /\ opOut.calls[j] \in UseCalls)
        /\ Cardinality({k \in 1..Len(opOut.calls) : opOut.calls[k] = "EndOfAllocScope"})
              = Len(opOut.insts)
        /\ opOut.calls[Len(opOut.calls) - 1] = "EndOfAllocScope"

\* unsigned_saturation has been emitted: DefGpr(inst) came before UseGpr(a)
C27_Witness ==
    /\ opOut.done
    /\ opIn.op = "RegAlloc" /\ opIn.form = "UnsignedSaturation"
    /\ opOut.calls[1] = "DefGpr" /\ opOut.calls[2] = "UseGpr"
    /\ opOut.calls[4] = "EndOfAllocScope"

(***************************************************************************)
(* C28.                                                                    *)
(***************************************************************************)
FreshBlockState ==
    opIn = NoOpIn =>
        /\ ~HasTerminal(ir_block)
        /\ GetTerminal(ir_block) = Invalid
        /\ ir_block.cond = AL
        /\ ~HasConditionFailedLocation(ir_block)

LaterSetTerminalFails ==
    (opIn.op = "SetTerminal" /\ HasTerminal(opIn.before)) =>
        /\ aborted
        /\ GetTerminal(ir_block) = GetTerminal(opIn.before)

\* An AppendNewInst that returns has kept the terminal and appended at the
\* end; one that does not return has changed nothing.
AppendKeepsTerminal ==
    opIn.op = "AppendNewInst" =>
        /\ GetTerminal(ir_block) = GetTerminal(opIn.before)
        /\ IF aborted THEN ir_block = opIn.before
           ELSE ir_block.instructions =
                   opIn.before.instructions \o << [op |-> opIn.arg[1], args |-> opIn.arg[2]] >>

\* AppendNewInst stops only at its argument-count check, and only in a
\* build with debug assertions.
AppendStopsOnlyInDebug ==
    opIn.op = "AppendNewInst" =>
        (aborted <=> (debug_asserts /\ Len(opIn.arg[2]) # NumArgs(opIn.arg[1])))

\* C28 as stated: a fresh block has no terminal, condition AL and no
\* condition-failed location; the first SetTerminal makes HasTerminal()
\* true; a later SetTerminal fails the assertion and leaves the terminal
\* unchanged; AppendNewInst keeps the terminal and appends at the end.
C28_OneTerminalOnceSet ==
    /\ FreshBlockState
    /\ (opIn.op = "SetTerminal" /\ ~HasTerminal(opIn.before)) =>
          (~aborted /\ HasTerminal(ir_block))
    /\ LaterSetTerminalFails
    /\ AppendKeepsTerminal

\* C28 amended: as above, with the SetTerminal that makes HasTerminal()
\* true being the first one whose argument is not Term::Invalid; a
\* SetTerminal(Term::Invalid) on a block without terminal passes the
\* assertion and leaves HasTerminal() false; AppendNewInst keeps the
\* terminal and appends at the end, in a build without debug assertions
\* whatever the number of arguments, and stops at its argument-count check
\* only in a build with them.
C28_OneTerminalOnceSetValid ==
    /\ FreshBlockState
    /\ (opIn.op = "SetTerminal" /\ ~HasTerminal(opIn.before)) =>
          /\ ~aborted
          /\ GetTerminal(ir_block) = opIn.arg
          /\ HasTerminal(ir_block) <=> (opIn.arg # Invalid)
    /\ LaterSetTerminalFails
    /\ AppendKeepsTerminal
    /\ AppendStopsOnlyInDebug

\* in a build without debug assertions a second SetTerminal has failed on
\* a block that holds an instruction appended with fewer arguments than
\* its opcode takes
C28_Witness ==
    /\ aborted
    /\ ~debug_asserts
    /\ opIn.op = "SetTerminal"
    /\ HasTerminal(ir_block)
    /\ opIn.arg # GetTerminal(ir_block)
    /\ \E k \in 1..Len(ir_block.instructions) :
          Len(ir_block.instructions[k].args) # NumArgs(ir_block.instructions[k].op)

(***************************************************************************)
(* C30.                                                                    *)
(***************************************************************************)
\* a 32-bit register holding 0 or 1
ZeroOrOne(reg) == reg \in {{}, {0}}

\* The host registers the code of the run's instruction leaves
ArithRegisters == Run86(ArithCode(opIn), 1, ArithEntry(opIn)).r
SatRegisters == Run86(EmitSignedSaturation(SatInst(opIn)), 1, SatEntry(opIn)).r

\* C30 as stated: the register bound to GetCarryFromOp or GetOverflowFromOp
\* holds exactly 0 or 1 as a 32-bit value after the producing instruction,
\* for add_with_carry and sub_with_carry (immediate carry-in included) and
\* for signed_saturation with N < 32.
C30_PseudoOpRegisterIsBit ==
    /\ (opOut.done /\ opIn.op \in ArithOps) =>
          (ZeroOrOne(ArithRegisters.carry) /\ ZeroOrOne(ArithRegisters.overflow))
    /\ (opOut.done /\ opIn.op = "SignedSaturation" /\ SatInst(opIn).N < 32) =>
          ZeroOrOne(SatRegisters.overflow)

\* signed_saturation has run from zeroed registers and left bits above
\* bit 7 in the overflow register, whose low byte is the overflow
C30_Witness ==
    /\ opOut.done
    /\ opIn.op = "SignedSaturation" /\ SatInst(opIn).N < 32 /\ ~opIn.f0
    /\ ~ZeroOrOne(SatRegisters.overflow)
    /\ Low(SatRegisters.overflow, 8) = opOut.overflow

====
